---- MODULE Spec2Model ----
(***************************************************************************)
(* rhoxy-socks: the per-connection SOCKS5 protocol engine.                 *)
(*                                                                         *)
(* One client connection is modelled from the accepted socket to the       *)
(* closed socket: greeting parse, method negotiation, request parse,       *)
(* command dispatch, the CONNECT / BIND / UDP ASSOCIATE handlers, the      *)
(* reply encoder and the relay.  Octets are integers 0..255; a frame is a  *)
(* sequence of octets.  The client's input is a finite octet sequence      *)
(* followed by the I/O error the reader reports once the octets run out.   *)
(***************************************************************************)
EXTENDS Integers, Sequences, FiniteSets, TLC

VARIABLES
    pc,          \* position of the driver in the connection
    supported,   \* ConnectionConfig.supported_auth_methods
    writable,    \* the client still accepts what the server writes
    out,         \* frames written and flushed to the client, in order
    greetingIn,  \* what the client sent for the method-selection exchange
    greeting,    \* the ClientGreeting returned by parse_client_greeting
    method,      \* the method returned by handle_client_methods
    requestIn,   \* what the client sent for the request exchange
    request,     \* the SocksRequest returned by parse_request
    cmdResult,   \* what Command::execute returned to handle_client_request
    connects,    \* outbound TcpStream::connect attempts on this connection
    target,      \* the outbound socket of CONNECT
    listener,    \* the listening socket of BIND
    relay,       \* the two copy directions of the relay
    dnsAnswer,   \* what resolve_domain returned, once it has been called
    err,         \* the io::Error the connection ended with
    result,      \* the driver's classification of the connection
    wire,        \* the payload octets of the relay and where each of them is
    tasks,       \* the relays of the connection tasks the accept loop has spawned
    config,      \* the ProxyConfig the process was started with
    server,      \* the process: start-up, the accept loop and its connection counter
    connection_result  \* what the accept on the BIND listener produced

vars ==
    <<pc, supported, writable, out, greetingIn, greeting, method, requestIn,
      request, cmdResult, connects, target, listener, relay, dnsAnswer, err, result,
      wire, tasks, config, server, connection_result>>

\* the state of one connection
connVars ==
    <<pc, supported, writable, out, greetingIn, greeting, method, requestIn,
      request, cmdResult, connects, target, listener, relay, dnsAnswer, err, result,
      wire, connection_result>>

\* Option values: None, or Some(x)
None == <<>>

Some(x) == <<x>>

\* the x of Some(x)
Unwrap(o) == o[1]

\* an io::Error: its ErrorKind and what it is about
IoErr(kind, msg) ==
    [kind |-> kind, msg |-> msg]

\* no error
NoErr == IoErr("none", "")

\* the error of a failed write or flush to the client
WriteErr == IoErr("BrokenPipe", "write")

-----------------------------------------------------------------------------
(* Bounds of the model.                                                    *)

\* longest method list a modelled greeting declares
MaxMethods == 2

\* longest domain name a modelled request carries
MaxDomainLen == 1

\* longest payload a client sends through the relay
MaxPayload == 2

\* connections relayed at the same time
MaxConns == 2

\* connections the listener hands to the accept loop
MaxAccepts == 3

-----------------------------------------------------------------------------
(* Wire primitives.                                                        *)

SOCKS5_VERSION == 5

RESERVED == 0

ERROR_ADDR == <<0, 0, 0, 0>>

ERROR_PORT == 0

NO_AUTHENTICATION_REQUIRED == 0

GSSAPI == 1

USERNAME_PASSWORD == 2

IANA_ASSIGNED == 3

RESERVED_FOR_PRIVATE_METHODS == 128

NO_ACCEPTABLE_METHODS == 255

SUCCESS == 0

GENERAL_FAILURE == 1

CONNECTION_NOT_ALLOWED == 2

NETWORK_UNREACHABLE == 3

HOST_UNREACHABLE == 4

CONNECTION_REFUSED == 5

TTL_EXPIRED == 6

COMMAND_NOT_SUPPORTED == 7

ADDRESS_TYPE_NOT_SUPPORTED == 8

IPV4 == 1

DOMAIN_NAME == 3

IPV6 == 4

CONNECT == 1

BIND == 2

UDP_ASSOCIATE == 3

Contains(s, x) ==
    \E i \in 1..Len(s) : s[i] = x

\* u16::to_be_bytes / write_u16
ToBeBytes(port) ==
    <<port \div 256, port % 256>>

\* read_u16 of two octets
FromBeBytes(hi, lo) ==
    hi * 256 + lo

\* an IpAddr: family 4 or 6 and its octets
IpV4(o) ==
    [fam |-> 4, octets |-> o]

IpV6(o) ==
    [fam |-> 6, octets |-> o]

\* send_reply: the frame [05, code, 00, atyp, address octets, port hi, port lo]
send_reply(reply_code, addr_type, addr_bytes, port) ==
    <<SOCKS5_VERSION, reply_code, RESERVED, addr_type>> \o addr_bytes \o ToBeBytes(port)

\* send_error_reply that writes the three header octets only
send_error_reply_header_only(error_code) ==
    <<SOCKS5_VERSION, error_code, RESERVED>>

\* send_error_reply that fills in the loopback address
send_error_reply_with_loopback(error_code) ==
    send_reply(error_code, IPV4, <<127, 0, 0, 1>>, ERROR_PORT)

\* send_error_reply: the zero-address IPv4 frame
send_error_reply(error_code) ==
    send_reply(error_code, IPV4, ERROR_ADDR, ERROR_PORT)

-----------------------------------------------------------------------------
(* The client's input.                                                     *)

\* what a read reports when the octets have run out
ReadErrors == {"UnexpectedEof", "ConnectionReset"}

\* all sequences over S of length at most n
RECURSIVE SeqsUpTo(_, _)
SeqsUpTo(S, n) ==
    IF n = 0 THEN {<<>>}
    ELSE LET shorter == SeqsUpTo(S, n - 1)
         IN  shorter \cup {Append(s, x) : s \in {t \in shorter : Len(t) = n - 1}, x \in S}

\* a complete input: the reader is never asked for more than it holds
Complete(b) ==
    [bytes |-> b, term |-> "UnexpectedEof"]

\* an input that ends early, with the error the next read reports
Truncated(b) ==
    {[bytes |-> b, term |-> t] : t \in ReadErrors}

VersionOctets == {4, 5}

MethodOctets == {0, 1, 2}

\* greetings the client may send: nothing, a version only, or a version, a
\* declared count and at most that many methods
GreetingInputs ==
    UNION {Truncated(<<>>)}
    \cup UNION {Truncated(<<v>>) : v \in VersionOctets}
    \cup UNION {UNION {IF Len(ms) = n THEN {Complete(<<v, n>> \o ms)}
                                      ELSE Truncated(<<v, n>> \o ms) :
                         ms \in SeqsUpTo(MethodOctets, n)} :
                  v \in VersionOctets, n \in 0..MaxMethods}

\* configurations of supported_auth_methods the driver may be given
SupportedConfigs ==
    {<<0>>, <<2, 0>>, <<2>>, <<1, 2>>}

-----------------------------------------------------------------------------
(* Method negotiation.                                                     *)

\* Method::from_u8
Method_from_u8(value) ==
    IF value \in {NO_AUTHENTICATION_REQUIRED, GSSAPI, USERNAME_PASSWORD, IANA_ASSIGNED,
                  RESERVED_FOR_PRIVATE_METHODS, NO_ACCEPTABLE_METHODS}
    THEN Some(value) ELSE None

\* is_implemented that also takes username/password for implemented
is_implemented_with_userpass(m) ==
    m \in {NO_AUTHENTICATION_REQUIRED, USERNAME_PASSWORD}

\* Method::is_implemented
is_implemented(m) ==
    m = NO_AUTHENTICATION_REQUIRED

\* the fixed priority order of MethodHandler::negotiate
method_priority ==
    <<NO_AUTHENTICATION_REQUIRED, USERNAME_PASSWORD, GSSAPI, IANA_ASSIGNED,
      RESERVED_FOR_PRIVATE_METHODS>>

\* the loop of MethodHandler::negotiate from position i of the priority order
RECURSIVE negotiate_from(_, _, _)
negotiate_from(i, client_methods, server_methods) ==
    IF i > Len(method_priority) THEN None
    ELSE LET method_code == method_priority[i]
         IN  IF /\ Contains(server_methods, method_code)
                /\ Contains(client_methods, method_code)
                /\ Method_from_u8(method_code) # None
                /\ is_implemented(Unwrap(Method_from_u8(method_code)))
             THEN Method_from_u8(method_code)
             ELSE negotiate_from(i + 1, client_methods, server_methods)

\* negotiate as it would be if it honoured the client's order: the first
\* offered method the server lists, implemented or not
RECURSIVE negotiate_client_order_from(_, _, _)
negotiate_client_order_from(i, client_methods, server_methods) ==
    IF i > Len(client_methods) THEN None
    ELSE IF Contains(server_methods, client_methods[i])
    THEN Method_from_u8(client_methods[i])
    ELSE negotiate_client_order_from(i + 1, client_methods, server_methods)

negotiate_client_order(client_methods, server_methods) ==
    negotiate_client_order_from(1, client_methods, server_methods)

\* negotiate without the is_implemented test: the first tag of the priority
\* order that both lists contain
negotiate_unimplemented_too(client_methods, server_methods) ==
    LET hits == {i \in 1..Len(method_priority) :
                   /\ Contains(server_methods, method_priority[i])
                   /\ Contains(client_methods, method_priority[i])}
    IN  IF hits = {} THEN None
        ELSE Method_from_u8(method_priority[CHOOSE i \in hits : \A j \in hits : i <= j])

\* MethodHandler::negotiate
negotiate(client_methods, server_methods) ==
    negotiate_from(1, client_methods, server_methods)

\* MethodHandler::authenticate_method: Ok only for no-auth
authenticate_method(m) ==
    IF m = NO_AUTHENTICATION_REQUIRED THEN NoErr
    ELSE IoErr("Unsupported", "authentication method not implemented")

\* parse_client_greeting as it would be if the version were checked only
\* once the whole greeting has been read
parse_client_greeting_late_version(in) ==
    LET b == in.bytes
        Fail(e) == [err |-> e, greeting |-> None]
    IN  IF Len(b) < 2 THEN Fail(IoErr(in.term, "read"))
        ELSE IF b[2] = 0
        THEN Fail(IoErr("InvalidData", "No authentication methods provided"))
        ELSE IF Len(b) < 2 + b[2] THEN Fail(IoErr(in.term, "read"))
        ELSE IF b[1] # SOCKS5_VERSION THEN Fail(IoErr("InvalidData", "Invalid SOCKS version"))
        ELSE [err |-> NoErr,
              greeting |-> Some([version |-> b[1], nmethods |-> b[2],
                                 methods |-> SubSeq(b, 3, 2 + b[2])])]

\* parse_client_greeting as it would be without the nmethods == 0 check
parse_client_greeting_accepts_empty(in) ==
    LET b == in.bytes
        Fail(e) == [err |-> e, greeting |-> None]
    IN  IF Len(b) < 1 THEN Fail(IoErr(in.term, "read"))
        ELSE IF b[1] # SOCKS5_VERSION THEN Fail(IoErr("InvalidData", "Invalid SOCKS version"))
        ELSE IF Len(b) < 2 THEN Fail(IoErr(in.term, "read"))
        ELSE IF Len(b) < 2 + b[2] THEN Fail(IoErr(in.term, "read"))
        ELSE [err |-> NoErr,
              greeting |-> Some([version |-> b[1], nmethods |-> b[2],
                                 methods |-> SubSeq(b, 3, 2 + b[2])])]

\* parse_client_greeting that returns the method octets that arrived when the
\* input ends before all of them have
parse_client_greeting_short_methods(in) ==
    LET b == in.bytes
        Fail(e) == [err |-> e, greeting |-> None]
    IN  IF Len(b) < 1 THEN Fail(IoErr(in.term, "read"))
        ELSE IF b[1] # SOCKS5_VERSION THEN Fail(IoErr("InvalidData", "Invalid SOCKS version"))
        ELSE IF Len(b) < 2 THEN Fail(IoErr(in.term, "read"))
        ELSE IF b[2] = 0
        THEN Fail(IoErr("InvalidData", "No authentication methods provided"))
        ELSE [err |-> NoErr,
              greeting |-> Some([version |-> b[1], nmethods |-> b[2],
                                 methods |-> SubSeq(b, 3, IF Len(b) < 2 + b[2]
                                                          THEN Len(b) ELSE 2 + b[2])])]

\* MethodHandler::parse_client_greeting on input in
parse_client_greeting(in) ==
    LET b == in.bytes
        Fail(e) == [err |-> e, greeting |-> None]
    IN  IF Len(b) < 1 THEN Fail(IoErr(in.term, "read"))
        ELSE IF b[1] # SOCKS5_VERSION THEN Fail(IoErr("InvalidData", "Invalid SOCKS version"))
        ELSE IF Len(b) < 2 THEN Fail(IoErr(in.term, "read"))
        ELSE IF b[2] = 0
        THEN Fail(IoErr("InvalidData", "No authentication methods provided"))
        ELSE IF Len(b) < 2 + b[2] THEN Fail(IoErr(in.term, "read"))
        ELSE [err |-> NoErr,
              greeting |-> Some([version |-> b[1], nmethods |-> b[2],
                                 methods |-> SubSeq(b, 3, 2 + b[2])])]

\* MethodHandler::validate_client_methods: "" for Ok, else the Err text
validate_client_methods(methods) ==
    IF Len(methods) = 0 THEN "No authentication methods provided"
    ELSE IF Len(methods) > 255 THEN "Too many authentication methods"
    ELSE ""

\* ClientGreeting::validate: "" for Ok, else the Err text
ClientGreeting_validate(g) ==
    IF g.version # SOCKS5_VERSION THEN "Invalid SOCKS version"
    ELSE IF g.nmethods # Len(g.methods) THEN "Method count mismatch"
    ELSE validate_client_methods(g.methods)

\* handle_client_methods as it would be if the refusal were returned without
\* the [05, FF] selection being written
handle_client_methods_silent_refusal(client_methods, server_methods, canWrite) ==
    LET selected == negotiate(client_methods, server_methods)
    IN  IF selected # None
        THEN IF ~canWrite
             THEN [frames |-> <<>>, err |-> WriteErr, method |-> None]
             ELSE IF authenticate_method(Unwrap(selected)) # NoErr
             THEN [frames |-> <<<<SOCKS5_VERSION, Unwrap(selected)>>>>,
                   err |-> authenticate_method(Unwrap(selected)), method |-> None]
             ELSE [frames |-> <<<<SOCKS5_VERSION, Unwrap(selected)>>>>, err |-> NoErr,
                   method |-> selected]
        ELSE [frames |-> <<>>,
              err |-> IoErr("InvalidData", "No acceptable authentication methods"),
              method |-> None]

\* MethodHandler::handle_client_methods: the frames written, and Ok(method) or Err
handle_client_methods(client_methods, server_methods, canWrite) ==
    LET selected == negotiate(client_methods, server_methods)
    IN  IF selected # None
        THEN IF ~canWrite
             THEN [frames |-> <<>>, err |-> WriteErr, method |-> None]
             ELSE IF authenticate_method(Unwrap(selected)) # NoErr
             THEN [frames |-> <<<<SOCKS5_VERSION, Unwrap(selected)>>>>,
                   err |-> authenticate_method(Unwrap(selected)), method |-> None]
             ELSE [frames |-> <<<<SOCKS5_VERSION, Unwrap(selected)>>>>, err |-> NoErr,
                   method |-> selected]
        ELSE IF ~canWrite
             THEN [frames |-> <<>>, err |-> WriteErr, method |-> None]
             ELSE [frames |-> <<<<SOCKS5_VERSION, NO_ACCEPTABLE_METHODS>>>>,
                   err |-> IoErr("InvalidData", "No acceptable authentication methods"),
                   method |-> None]

\* handshake.rs, parse_client_greeting: the version is checked, the count is
\* not; Err, or Ok(HandshakeRequest)
handshake_parse_client_greeting(in) ==
    LET b == in.bytes
        Fail(e) == [err |-> e, greeting |-> None]
    IN  IF Len(b) < 1 THEN Fail(IoErr(in.term, "read"))
        ELSE IF b[1] # SOCKS5_VERSION
        THEN Fail(IoErr("InvalidData", "Expected SOCKS version"))
        ELSE IF Len(b) < 2 THEN Fail(IoErr(in.term, "read"))
        ELSE IF Len(b) < 2 + b[2] THEN Fail(IoErr(in.term, "read"))
        ELSE [err |-> NoErr,
              greeting |-> Some([version |-> b[1], nmethods |-> b[2],
                                 methods |-> SubSeq(b, 3, 2 + b[2])])]

\* handle_client_greeting as it would be if it refused a greeting that does
\* not offer no-auth
handshake_handle_client_greeting_negotiating(handshake_request, canWrite) ==
    IF ~canWrite THEN [frames |-> <<>>, err |-> WriteErr]
    ELSE IF Contains(handshake_request.methods, NO_AUTHENTICATION_REQUIRED)
    THEN [frames |-> <<<<SOCKS5_VERSION, NO_AUTHENTICATION_REQUIRED>>>>, err |-> NoErr]
    ELSE [frames |-> <<<<SOCKS5_VERSION, NO_ACCEPTABLE_METHODS>>>>, err |-> NoErr]

\* handshake.rs, handle_client_greeting: the response is [05, 00] whatever the
\* request holds
handshake_handle_client_greeting(handshake_request, canWrite) ==
    IF ~canWrite THEN [frames |-> <<>>, err |-> WriteErr]
    ELSE [frames |-> <<<<SOCKS5_VERSION, NO_AUTHENTICATION_REQUIRED>>>>, err |-> NoErr]

\* handshake::perform_handshake: parse, then answer
perform_handshake(in, canWrite) ==
    LET parsed == handshake_parse_client_greeting(in)
    IN  IF parsed.err # NoErr
        THEN [frames |-> <<>>, err |-> parsed.err, greeting |-> None]
        ELSE LET answered == handshake_handle_client_greeting(Unwrap(parsed.greeting),
                                                              canWrite)
             IN  [frames |-> answered.frames, err |-> answered.err,
                  greeting |-> parsed.greeting]

-----------------------------------------------------------------------------
(* Request parsing.                                                        *)

\* a SocksError: its variant and, for IoError and ConnectionFailed, the ErrorKind
SocksError(tag, kind) ==
    [tag |-> tag, kind |-> kind]

\* to_reply_code with a wrong reserved octet reported as "connection not
\* allowed by ruleset"
to_reply_code_reserved_not_allowed(e) ==
    CASE e.tag = "InvalidVersion" -> GENERAL_FAILURE
      [] e.tag = "InvalidReservedByte" -> CONNECTION_NOT_ALLOWED
      [] e.tag = "UnsupportedAddressType" -> ADDRESS_TYPE_NOT_SUPPORTED
      [] e.tag = "UnsupportedCommand" -> COMMAND_NOT_SUPPORTED
      [] e.tag \in {"DnsResolutionFailed", "NoAddressesResolved"} -> HOST_UNREACHABLE
      [] OTHER -> GENERAL_FAILURE

\* to_reply_code with the two name-resolution errors reported as general
\* failure
to_reply_code_resolution_as_general_failure(e) ==
    CASE e.tag = "InvalidVersion" -> GENERAL_FAILURE
      [] e.tag = "InvalidReservedByte" -> GENERAL_FAILURE
      [] e.tag = "UnsupportedAddressType" -> ADDRESS_TYPE_NOT_SUPPORTED
      [] e.tag = "UnsupportedCommand" -> COMMAND_NOT_SUPPORTED
      [] e.tag = "EmptyDomainName" -> GENERAL_FAILURE
      [] e.tag = "InvalidDomainNameEncoding" -> GENERAL_FAILURE
      [] e.tag = "DnsResolutionFailed" -> GENERAL_FAILURE
      [] e.tag = "NoAddressesResolved" -> GENERAL_FAILURE
      [] e.tag = "ConnectionFailed" ->
            CASE e.kind = "ConnectionRefused" -> CONNECTION_REFUSED
              [] e.kind = "TimedOut" -> HOST_UNREACHABLE
              [] e.kind = "AddrNotAvailable" -> HOST_UNREACHABLE
              [] e.kind = "NetworkUnreachable" -> NETWORK_UNREACHABLE
              [] e.kind = "PermissionDenied" -> CONNECTION_NOT_ALLOWED
              [] OTHER -> GENERAL_FAILURE
      [] e.tag = "InvalidData" -> GENERAL_FAILURE
      [] e.tag = "IoError" -> GENERAL_FAILURE

\* SocksError::to_reply_code
to_reply_code(e) ==
    CASE e.tag = "InvalidVersion" -> GENERAL_FAILURE
      [] e.tag = "InvalidReservedByte" -> GENERAL_FAILURE
      [] e.tag = "UnsupportedAddressType" -> ADDRESS_TYPE_NOT_SUPPORTED
      [] e.tag = "UnsupportedCommand" -> COMMAND_NOT_SUPPORTED
      [] e.tag = "EmptyDomainName" -> GENERAL_FAILURE
      [] e.tag = "InvalidDomainNameEncoding" -> GENERAL_FAILURE
      [] e.tag = "DnsResolutionFailed" -> HOST_UNREACHABLE
      [] e.tag = "NoAddressesResolved" -> HOST_UNREACHABLE
      [] e.tag = "ConnectionFailed" ->
            CASE e.kind = "ConnectionRefused" -> CONNECTION_REFUSED
              [] e.kind = "TimedOut" -> HOST_UNREACHABLE
              [] e.kind = "AddrNotAvailable" -> HOST_UNREACHABLE
              [] e.kind = "NetworkUnreachable" -> NETWORK_UNREACHABLE
              [] e.kind = "PermissionDenied" -> CONNECTION_NOT_ALLOWED
              [] OTHER -> GENERAL_FAILURE
      [] e.tag = "InvalidData" -> GENERAL_FAILURE
      [] e.tag = "IoError" -> GENERAL_FAILURE

\* SocksError::to_io_error
to_io_error(e) ==
    CASE e.tag = "InvalidVersion" -> IoErr("InvalidData", "Invalid SOCKS version")
      [] e.tag = "InvalidReservedByte" -> IoErr("InvalidData", "Invalid reserved byte")
      [] e.tag = "UnsupportedAddressType" -> IoErr("InvalidData", "Unsupported address type")
      [] e.tag = "UnsupportedCommand" -> IoErr("InvalidData", "Unsupported command")
      [] e.tag = "EmptyDomainName" -> IoErr("InvalidData", "Empty domain name")
      [] e.tag = "InvalidDomainNameEncoding" ->
            IoErr("InvalidData", "Invalid domain name encoding")
      [] e.tag = "DnsResolutionFailed" -> IoErr("Other", "DNS resolution failed")
      [] e.tag = "NoAddressesResolved" -> IoErr("Other", "No addresses resolved for domain")
      [] e.tag = "ConnectionFailed" -> IoErr(e.kind, "Connection failed")
      [] e.tag = "InvalidData" -> IoErr("InvalidData", "Invalid data")
      [] e.tag = "IoError" -> IoErr(e.kind, "IO error")

\* a UTF-8 continuation octet
IsCont(s, i) ==
    i <= Len(s) /\ s[i] \in 128..191

\* String::from_utf8 accepts the octets of s from position i on
RECURSIVE ValidUtf8From(_, _)
ValidUtf8From(s, i) ==
    IF i > Len(s) THEN TRUE
    ELSE LET c == s[i]
         IN  CASE c < 128 -> ValidUtf8From(s, i + 1)
               [] c \in 194..223 -> IsCont(s, i + 1) /\ ValidUtf8From(s, i + 2)
               [] c = 224 ->
                     /\ i + 1 <= Len(s) /\ s[i + 1] \in 160..191
                     /\ IsCont(s, i + 2) /\ ValidUtf8From(s, i + 3)
               [] c \in (225..236) \cup {238, 239} ->
                     IsCont(s, i + 1) /\ IsCont(s, i + 2) /\ ValidUtf8From(s, i + 3)
               [] c = 237 ->
                     /\ i + 1 <= Len(s) /\ s[i + 1] \in 128..159
                     /\ IsCont(s, i + 2) /\ ValidUtf8From(s, i + 3)
               [] c = 240 ->
                     /\ i + 1 <= Len(s) /\ s[i + 1] \in 144..191
                     /\ IsCont(s, i + 2) /\ IsCont(s, i + 3) /\ ValidUtf8From(s, i + 4)
               [] c \in 241..243 ->
                     /\ IsCont(s, i + 1) /\ IsCont(s, i + 2) /\ IsCont(s, i + 3)
                     /\ ValidUtf8From(s, i + 4)
               [] c = 244 ->
                     /\ i + 1 <= Len(s) /\ s[i + 1] \in 128..143
                     /\ IsCont(s, i + 2) /\ IsCont(s, i + 3) /\ ValidUtf8From(s, i + 4)
               [] OTHER -> FALSE

\* String::from_utf8(domain).is_ok()
from_utf8_ok(domain) ==
    ValidUtf8From(domain, 1)

\* AddressType::from_u8
AddressType_from_u8(value) ==
    IF value \in {IPV4, DOMAIN_NAME, IPV6} THEN Some(value) ELSE None

\* the outcome of an address parse: Err(SocksError) or Ok(addr), and the next
\* position of the reader
AddrErr(e, next) ==
    [err |-> Some(e), addr |-> None, next |-> next, asked |-> FALSE]

AddrOk(a, next) ==
    [err |-> None, addr |-> Some(a), next |-> next, asked |-> FALSE]

\* the same outcome, reached after resolve_domain was called
AfterLookup(r) ==
    [r EXCEPT !.asked = TRUE]

\* AddressType::parse_ipv4 with the reader at position pos of input in
parse_ipv4(in, pos) ==
    IF Len(in.bytes) < pos + 3 THEN AddrErr(SocksError("IoError", in.term), Len(in.bytes) + 1)
    ELSE AddrOk(IpV4(SubSeq(in.bytes, pos, pos + 3)), pos + 4)

\* AddressType::parse_ipv6
parse_ipv6(in, pos) ==
    IF Len(in.bytes) < pos + 15 THEN AddrErr(SocksError("IoError", in.term), Len(in.bytes) + 1)
    ELSE AddrOk(IpV6(SubSeq(in.bytes, pos, pos + 15)), pos + 16)

\* parse_domain_name that picks the last entry of the resolver's list
parse_domain_name_last_entry(in, pos, dns) ==
    LET b == in.bytes
    IN  IF Len(b) < pos THEN AddrErr(SocksError("IoError", in.term), Len(b) + 1)
        ELSE LET domain_len == b[pos]
             IN  IF domain_len = 0 THEN AddrErr(SocksError("EmptyDomainName", ""), pos + 1)
                 ELSE IF Len(b) < pos + domain_len
                 THEN AddrErr(SocksError("IoError", in.term), Len(b) + 1)
                 ELSE IF ~from_utf8_ok(SubSeq(b, pos + 1, pos + domain_len))
                 THEN AddrErr(SocksError("InvalidDomainNameEncoding", ""), pos + domain_len + 1)
                 ELSE IF dns = None
                 THEN AfterLookup(AddrErr(SocksError("DnsResolutionFailed", ""),
                                          pos + domain_len + 1))
                 ELSE IF Len(Unwrap(dns)) = 0
                 THEN AfterLookup(AddrErr(SocksError("NoAddressesResolved", ""),
                                          pos + domain_len + 1))
                 ELSE AfterLookup(AddrOk(Unwrap(dns)[Len(Unwrap(dns))], pos + domain_len + 1))

\* AddressType::parse_domain_name; dns is what resolve_domain returns for the
\* name: None for Err, Some(list of addresses) for Ok
parse_domain_name(in, pos, dns) ==
    LET b == in.bytes
    IN  IF Len(b) < pos THEN AddrErr(SocksError("IoError", in.term), Len(b) + 1)
        ELSE LET domain_len == b[pos]
             IN  IF domain_len = 0 THEN AddrErr(SocksError("EmptyDomainName", ""), pos + 1)
                 ELSE IF Len(b) < pos + domain_len
                 THEN AddrErr(SocksError("IoError", in.term), Len(b) + 1)
                 ELSE IF ~from_utf8_ok(SubSeq(b, pos + 1, pos + domain_len))
                 THEN AddrErr(SocksError("InvalidDomainNameEncoding", ""), pos + domain_len + 1)
                 ELSE IF dns = None
                 THEN AfterLookup(AddrErr(SocksError("DnsResolutionFailed", ""),
                                          pos + domain_len + 1))
                 ELSE IF Len(Unwrap(dns)) = 0
                 THEN AfterLookup(AddrErr(SocksError("NoAddressesResolved", ""),
                                          pos + domain_len + 1))
                 ELSE AfterLookup(AddrOk(Unwrap(dns)[1], pos + domain_len + 1))

\* AddressType::parse that reads an unrecognized address type as IPv4
AddressType_parse_unknown_as_ipv4(in, pos, atyp, dns) ==
    CASE AddressType_from_u8(atyp) = Some(DOMAIN_NAME) -> parse_domain_name(in, pos, dns)
      [] AddressType_from_u8(atyp) = Some(IPV6) -> parse_ipv6(in, pos)
      [] OTHER -> parse_ipv4(in, pos)

\* AddressType::parse
AddressType_parse(in, pos, atyp, dns) ==
    CASE AddressType_from_u8(atyp) = Some(IPV4) -> parse_ipv4(in, pos)
      [] AddressType_from_u8(atyp) = Some(DOMAIN_NAME) -> parse_domain_name(in, pos, dns)
      [] AddressType_from_u8(atyp) = Some(IPV6) -> parse_ipv6(in, pos)
      [] OTHER -> AddrErr(SocksError("UnsupportedAddressType", ""), pos)

\* the frames a write of frame f adds to the client's stream
Written(f, canWrite) ==
    IF canWrite THEN <<f>> ELSE <<>>

\* send_socks_error_reply
send_socks_error_reply(e) ==
    send_error_reply(to_reply_code(e))

\* parse_request as it would be if the version and the reserved octet were
\* checked as soon as they are read
parse_request_version_first(in, dns, canWrite) ==
    LET b == in.bytes
        Eof(msg, asked) == [err |-> IoErr("UnexpectedEof", msg), request |-> None,
                            frames |-> <<>>, asked |-> asked, consumed |-> Len(b)]
        Reject(e, asked, n) == [err |-> to_io_error(e), request |-> None,
                                frames |-> Written(send_socks_error_reply(e), canWrite),
                                asked |-> asked, consumed |-> n]
    IN  IF Len(b) < 1 THEN Eof("Failed to read version", FALSE)
        ELSE IF b[1] # SOCKS5_VERSION THEN Reject(SocksError("InvalidVersion", ""), FALSE, 1)
        ELSE IF Len(b) < 2 THEN Eof("Failed to read command", FALSE)
        ELSE IF Len(b) < 3 THEN Eof("Failed to read reserved byte", FALSE)
        ELSE IF b[3] # RESERVED THEN Reject(SocksError("InvalidReservedByte", ""), FALSE, 3)
        ELSE IF Len(b) < 4 THEN Eof("Failed to read address type", FALSE)
        ELSE LET parsed == AddressType_parse(in, 5, b[4], dns)
             IN  IF parsed.err # None
                 THEN Reject(Unwrap(parsed.err), parsed.asked, parsed.next - 1)
                 ELSE IF Len(b) < parsed.next + 1
                 THEN Eof("Failed to read port", parsed.asked)
                 ELSE [err |-> NoErr, frames |-> <<>>, asked |-> parsed.asked,
                       consumed |-> parsed.next + 1,
                       request |-> Some([version |-> b[1], command |-> b[2],
                                         reserved |-> b[3],
                                         address_type |-> b[4],
                                         dest_addr |-> Unwrap(parsed.addr),
                                         dest_port |-> FromBeBytes(b[parsed.next],
                                                                   b[parsed.next + 1])])]

\* parse_request as it would be if it refused a command octet that is none of
\* the three commands
parse_request_validates_command(in, dns, canWrite) ==
    LET b == in.bytes
        Eof(msg, asked) == [err |-> IoErr("UnexpectedEof", msg), request |-> None,
                            frames |-> <<>>, asked |-> asked, consumed |-> Len(b)]
        Reject(e, asked, n) == [err |-> to_io_error(e), request |-> None,
                                frames |-> Written(send_socks_error_reply(e), canWrite),
                                asked |-> asked, consumed |-> n]
    IN  IF Len(b) < 1 THEN Eof("Failed to read version", FALSE)
        ELSE IF Len(b) < 2 THEN Eof("Failed to read command", FALSE)
        ELSE IF Len(b) < 3 THEN Eof("Failed to read reserved byte", FALSE)
        ELSE IF Len(b) < 4 THEN Eof("Failed to read address type", FALSE)
        ELSE LET parsed == AddressType_parse(in, 5, b[4], dns)
             IN  IF parsed.err # None
                 THEN Reject(Unwrap(parsed.err), parsed.asked, parsed.next - 1)
                 ELSE IF Len(b) < parsed.next + 1
                 THEN Eof("Failed to read port", parsed.asked)
                 ELSE IF b[1] # SOCKS5_VERSION
                 THEN Reject(SocksError("InvalidVersion", ""), parsed.asked, parsed.next + 1)
                 ELSE IF b[3] # RESERVED
                 THEN Reject(SocksError("InvalidReservedByte", ""), parsed.asked,
                             parsed.next + 1)
                 ELSE IF b[2] \notin {CONNECT, BIND, UDP_ASSOCIATE}
                 THEN Reject(SocksError("UnsupportedCommand", ""), parsed.asked,
                             parsed.next + 1)
                 ELSE [err |-> NoErr, frames |-> <<>>, asked |-> parsed.asked,
                       consumed |-> parsed.next + 1,
                       request |-> Some([version |-> b[1], command |-> b[2],
                                         reserved |-> b[3],
                                         address_type |-> b[4],
                                         dest_addr |-> Unwrap(parsed.addr),
                                         dest_port |-> FromBeBytes(b[parsed.next],
                                                                   b[parsed.next + 1])])]

\* SocksRequest::parse_request: Err with the frames written on the way, or
\* Ok(SocksRequest), and the number of octets read from the client.  A write
\* failure of an error reply is logged and dropped.
parse_request(in, dns, canWrite) ==
    LET b == in.bytes
        Eof(msg, asked) == [err |-> IoErr("UnexpectedEof", msg), request |-> None,
                            frames |-> <<>>, asked |-> asked, consumed |-> Len(b)]
        Reject(e, asked, n) == [err |-> to_io_error(e), request |-> None,
                                frames |-> Written(send_socks_error_reply(e), canWrite),
                                asked |-> asked, consumed |-> n]
    IN  IF Len(b) < 1 THEN Eof("Failed to read version", FALSE)
        ELSE IF Len(b) < 2 THEN Eof("Failed to read command", FALSE)
        ELSE IF Len(b) < 3 THEN Eof("Failed to read reserved byte", FALSE)
        ELSE IF Len(b) < 4 THEN Eof("Failed to read address type", FALSE)
        ELSE LET version == b[1]
                 command == b[2]
                 reserved == b[3]
                 address_type == b[4]
                 parsed == AddressType_parse(in, 5, address_type, dns)
             IN  IF parsed.err # None
                 THEN Reject(Unwrap(parsed.err), parsed.asked, parsed.next - 1)
                 ELSE IF Len(b) < parsed.next + 1
                 THEN Eof("Failed to read port", parsed.asked)
                 ELSE IF version # SOCKS5_VERSION
                 THEN Reject(SocksError("InvalidVersion", ""), parsed.asked, parsed.next + 1)
                 ELSE IF reserved # RESERVED
                 THEN Reject(SocksError("InvalidReservedByte", ""), parsed.asked,
                             parsed.next + 1)
                 ELSE [err |-> NoErr, frames |-> <<>>, asked |-> parsed.asked,
                       consumed |-> parsed.next + 1,
                       request |-> Some([version |-> version, command |-> command,
                                         reserved |-> reserved,
                                         address_type |-> address_type,
                                         dest_addr |-> Unwrap(parsed.addr),
                                         dest_port |-> FromBeBytes(b[parsed.next],
                                                                   b[parsed.next + 1])])]

\* parse_command that takes an unrecognized command octet for CONNECT
parse_command_unknown_as_connect(command) ==
    IF command \in {BIND, UDP_ASSOCIATE} THEN Some(command) ELSE Some(CONNECT)

\* Command::parse_command
parse_command(command) ==
    IF command \in {CONNECT, BIND, UDP_ASSOCIATE} THEN Some(command) ELSE None

-----------------------------------------------------------------------------
(* Requests the client may send and what the environment may answer.       *)

CommandOctets == {1, 2, 3, 9}

ReservedOctets == {0, 1}

AtypOctets == {1, 3, 4, 153}

\* octets of domain names: "a", and the two octets of U+00E9
DomainOctets == {97, 195, 169}

LOCALHOST_V4 == <<127, 0, 0, 1>>

LOCALHOST_V6 == <<0, 0, 0, 0, 0, 0, 0, 0, 0, 0, 0, 0, 0, 0, 0, 1>>

PortOctets == {<<31, 144>>}

\* the address field of a request of address type a, as the client encodes it
AddressFields(a) ==
    CASE a = IPV4 -> {LOCALHOST_V4}
      [] a = IPV6 -> {LOCALHOST_V6}
      [] a = DOMAIN_NAME -> {<<Len(name)>> \o name : name \in SeqsUpTo(DomainOctets, MaxDomainLen)}
      [] OTHER -> {LOCALHOST_V4}

\* complete requests: the four header octets, the address field and the port
FullRequests ==
    UNION {{<<v, c, r, a>> \o addr \o port : addr \in AddressFields(a), port \in PortOctets} :
             v \in VersionOctets, c \in CommandOctets, r \in ReservedOctets, a \in AtypOctets}

\* where a request may break off: before each header octet, inside the address
\* field, and inside the port
CutPoints(full) ==
    {0, 1, 2, 3, 5, Len(full) - 1}

\* requests the client may send: complete ones and ones that end early
RequestInputs ==
    {Complete(full) : full \in FullRequests}
    \cup UNION {UNION {Truncated(SubSeq(full, 1, n)) : n \in CutPoints(full)} :
                  full \in FullRequests}

\* what name resolution may return: Err, or Ok with a list of addresses
DnsOutcomes ==
    {None, Some(<<>>), Some(<<IpV4(<<10, 0, 0, 7>>)>>),
     Some(<<IpV6(LOCALHOST_V6), IpV4(<<10, 0, 0, 7>>)>>)}

\* the ErrorKind of a failed TcpStream::connect
ConnectErrorKinds ==
    {"ConnectionRefused", "TimedOut", "AddrNotAvailable", "NetworkUnreachable",
     "PermissionDenied", "HostUnreachable", "Other"}

\* local endpoints of an outbound socket
LocalAddrs ==
    {[ip |-> IpV4(<<127, 0, 0, 1>>), port |-> 40000],
     [ip |-> IpV6(LOCALHOST_V6), port |-> 40001]}

\* the port TcpListener::bind("0.0.0.0:0") is given
BoundPorts == {40002}

\* peers that may connect to the BIND listener
PeerAddrs ==
    {[ip |-> IpV4(LOCALHOST_V4), port |-> 50000],
     [ip |-> IpV4(<<10, 0, 0, 9>>), port |-> 50001]}

\* an input that has not arrived yet
NoInput ==
    [bytes |-> <<>>, term |-> "pending"]

-----------------------------------------------------------------------------
(* Command results.                                                        *)

\* CommandResult::success
CommandResult_success(bind_addr, bind_port) ==
    [reply_code |-> SUCCESS, bind_addr |-> bind_addr, bind_port |-> bind_port,
     stream |-> FALSE]

\* CommandResult::error
CommandResult_error(reply_code) ==
    [reply_code |-> reply_code, bind_addr |-> IpV4(ERROR_ADDR), bind_port |-> ERROR_PORT,
     stream |-> FALSE]

\* CommandResult::send_reply: the frame, by the family of bind_addr
CommandResult_send_reply(r) ==
    IF r.bind_addr.fam = 4
    THEN send_reply(r.reply_code, IPV4, r.bind_addr.octets, r.bind_port)
    ELSE send_reply(r.reply_code, IPV6, r.bind_addr.octets, r.bind_port)

\* reply_buf[pos..pos + n].copy_from_slice(octets), n the length of octets
copy_from_slice(reply_buf, pos, octets) ==
    [i \in 1..Len(reply_buf) |->
        IF i > pos /\ i <= pos + Len(octets) THEN octets[i - pos] ELSE reply_buf[i]]

\* send_reply_optimized with the port in little-endian order
send_reply_optimized_little_endian(r) ==
    LET reply_buf == [i \in 1..22 |-> 0]
        header == copy_from_slice(reply_buf, 0, <<SOCKS5_VERSION, r.reply_code, RESERVED>>)
        typed == copy_from_slice(header, 3, <<IF r.bind_addr.fam = 4 THEN IPV4 ELSE IPV6>>)
        addressed == copy_from_slice(typed, 4, r.bind_addr.octets)
        pos == 4 + Len(r.bind_addr.octets)
        ported == copy_from_slice(addressed, pos, <<r.bind_port % 256, r.bind_port \div 256>>)
    IN  [frame |-> SubSeq(ported, 1, pos + 2), pos |-> pos + 2]

\* CommandResult::send_reply_optimized: the 22 octet buffer on the stack,
\* filled from position 0, and the octets reply_buf[..pos] that are written
send_reply_optimized(r) ==
    LET reply_buf == [i \in 1..22 |-> 0]
        header == copy_from_slice(reply_buf, 0, <<SOCKS5_VERSION, r.reply_code, RESERVED>>)
        typed == copy_from_slice(header, 3, <<IF r.bind_addr.fam = 4 THEN IPV4 ELSE IPV6>>)
        addressed == copy_from_slice(typed, 4, r.bind_addr.octets)
        pos == 4 + Len(r.bind_addr.octets)
        ported == copy_from_slice(addressed, pos, ToBeBytes(r.bind_port))
    IN  [frame |-> SubSeq(ported, 1, pos + 2), pos |-> pos + 2]

\* what Command::execute handed back: "Ok" with Some(CommandResult), "Unit"
\* for Ok(()) or "Err", both with None
Returned(kind, r) ==
    Some([kind |-> kind, value |-> r])

\* connect_error_code with a timed-out connect reported as "TTL expired"
connect_error_code_timeout_as_ttl(kind) ==
    CASE kind = "ConnectionRefused" -> CONNECTION_REFUSED
      [] kind = "TimedOut" -> TTL_EXPIRED
      [] kind = "AddrNotAvailable" -> HOST_UNREACHABLE
      [] kind = "NetworkUnreachable" -> NETWORK_UNREACHABLE
      [] kind = "PermissionDenied" -> CONNECTION_NOT_ALLOWED
      [] OTHER -> GENERAL_FAILURE

\* the reply code connect::handle_command picks for a failed connect
connect_error_code(kind) ==
    CASE kind = "ConnectionRefused" -> CONNECTION_REFUSED
      [] kind = "TimedOut" -> HOST_UNREACHABLE
      [] kind = "AddrNotAvailable" -> HOST_UNREACHABLE
      [] kind = "NetworkUnreachable" -> NETWORK_UNREACHABLE
      [] kind = "PermissionDenied" -> CONNECTION_NOT_ALLOWED
      [] OTHER -> GENERAL_FAILURE

-----------------------------------------------------------------------------
(* The relay's payload.                                                    *)

\* the octets the client sends through the relay, "hi!?." in that order
PayloadText == <<104, 105, 33, 63, 46>>

\* what the client may send through the relay: nothing, or the first octets
\* of the text
Payloads ==
    {SubSeq(PayloadText, 1, n) : n \in 0..MaxPayload}

\* the octets of one relayed connection: the payload the client sends, the
\* part not yet read from the client, what the target has received, how much
\* of that the echo target has written back, what is on its way back, and
\* what the client has received
NewWire(payload) ==
    [payload |-> payload, unsent |-> payload, atTarget |-> <<>>, echoed |-> 0,
     back |-> <<>>, atClient |-> <<>>]

\* before the relay there is nothing to carry
NoWire ==
    NewWire(<<>>)

\* one round of copy(client_reader, target_writer): n octets are read from the
\* client and written to the target
copy_client_to_target(w, n) ==
    [w EXCEPT !.unsent = SubSeq(w.unsent, n + 1, Len(w.unsent)),
              !.atTarget = w.atTarget \o SubSeq(w.unsent, 1, n)]

\* the echo target writes back the next n octets it has received
target_echoes(w, n) ==
    [w EXCEPT !.echoed = w.echoed + n,
              !.back = w.back \o SubSeq(w.atTarget, w.echoed + 1, w.echoed + n)]

\* copy(target_reader, client_writer) with a single write in place of
\* write_all: of the n octets read only the first is written
copy_target_to_client_short_write(w, n) ==
    [w EXCEPT !.back = SubSeq(w.back, n + 1, Len(w.back)),
              !.atClient = w.atClient \o SubSeq(w.back, 1, 1)]

\* one round of copy(target_reader, client_writer): n octets are read from the
\* target and written to the client
copy_target_to_client(w, n) ==
    [w EXCEPT !.back = SubSeq(w.back, n + 1, Len(w.back)),
              !.atClient = w.atClient \o SubSeq(w.back, 1, n)]

-----------------------------------------------------------------------------
(* The configuration of the process.                                       *)

\* ProxyConfig: the fields ProxyConfig::validate reads; auth_methods is the
\* string as split(',') cuts it
ProxyConfig(port, max_connections, buffer_size, auth_methods) ==
    [port |-> port, max_connections |-> max_connections, buffer_size |-> buffer_size,
     auth_methods |-> auth_methods]

\* the default values of the command line
DefaultConfig ==
    ProxyConfig(1080, 1000, 32, <<"none">>)

Ports == {0, 1080}

\* buffer sizes in KB, around the two limits
BufferSizes == {0, 1, 1024, 1025}

\* --auth-methods "none", "", "userpass" and " None,gssapi"
AuthMethodsValues ==
    {<<"none">>, <<"">>, <<"userpass">>, <<" None", "gssapi">>}

\* configurations the process may be started with
ProxyConfigs ==
    {ProxyConfig(p, m, b, a) :
       p \in Ports, m \in 0..MaxConns, b \in BufferSizes, a \in AuthMethodsValues}

\* method.trim().to_lowercase()
trim_to_lowercase(method_name) ==
    CASE method_name = " None" -> "none"
      [] OTHER -> method_name

\* the loop of supported_auth_methods from token i on: "none" is pushed as
\* 0x00, anything else is ignored with a warning
RECURSIVE auth_methods_from(_, _)
auth_methods_from(names, i) ==
    IF i > Len(names) THEN <<>>
    ELSE IF trim_to_lowercase(names[i]) = "none"
    THEN <<NO_AUTHENTICATION_REQUIRED>> \o auth_methods_from(names, i + 1)
    ELSE auth_methods_from(names, i + 1)

\* ProxyConfig::supported_auth_methods: an empty list falls back to no-auth
supported_auth_methods(cfg) ==
    LET methods == auth_methods_from(cfg.auth_methods, 1)
    IN  IF methods = <<>> THEN <<0>> ELSE methods

\* ProxyConfig::validate without the upper limit of the buffer size
ProxyConfig_validate_without_buffer_limit(cfg) ==
    IF cfg.port = 0 THEN "Port cannot be 0"
    ELSE IF cfg.max_connections = 0 THEN "Max connections must be greater than 0"
    ELSE IF cfg.buffer_size = 0 THEN "Buffer size must be greater than 0"
    ELSE IF supported_auth_methods(cfg) = <<>>
    THEN "At least one authentication method must be supported"
    ELSE ""

\* ProxyConfig::validate: "" for Ok, else the Err text
ProxyConfig_validate(cfg) ==
    IF cfg.port = 0 THEN "Port cannot be 0"
    ELSE IF cfg.max_connections = 0 THEN "Max connections must be greater than 0"
    ELSE IF cfg.buffer_size = 0 THEN "Buffer size must be greater than 0"
    ELSE IF cfg.buffer_size > 1024 THEN "Buffer size cannot exceed 1024 KB"
    ELSE IF supported_auth_methods(cfg) = <<>>
    THEN "At least one authentication method must be supported"
    ELSE ""

\* the accept loops of the sources: start_server of main.rs and
\* ProxyServer::accept_loop of server.rs
AcceptLoops == {"start_server", "ProxyServer"}

\* ProxyServer::shutdown before it is called: where it is, the count it loaded
\* last, and whether shutdown_timeout has elapsed since the broadcast
NoShutdown ==
    [pc |-> "idle", remaining |-> 0, elapsed |-> FALSE, broadcasts |-> 0]

\* a process that has not run yet: nothing validated, no listener, the
\* connection counter at zero, no connection accepted
NotStarted(loop) ==
    [loop |-> loop, state |-> "start", validation |-> None, pc |-> "accept",
     active_connections |-> 0, seen |-> 0, conns |-> <<>>, shutdown |-> NoShutdown]

-----------------------------------------------------------------------------
(* The connection.                                                         *)

Init ==
    /\ pc = "greeting"
    /\ supported \in SupportedConfigs
    /\ writable = TRUE
    /\ out = <<>>
    /\ greetingIn = NoInput
    /\ greeting = None
    /\ method = None
    /\ requestIn = NoInput
    /\ request = None
    /\ cmdResult = None
    /\ connects = 0
    /\ target = "none"
    /\ listener = "none"
    /\ relay = [c2t |-> "idle", t2c |-> "idle"]
    /\ dnsAnswer = None
    /\ err = NoErr
    /\ result = "running"
    /\ wire = NoWire
    /\ tasks = <<>>
    /\ config = DefaultConfig
    /\ server = NotStarted("start_server")
    /\ connection_result = None

\* a driver that returns without dropping the target socket and the listener
Close_leaving_sockets_open(classification, e) ==
    /\ pc' = "closed"
    /\ result' = classification
    /\ err' = e
    /\ target' = target
    /\ listener' = listener

\* the driver returns: the sockets are dropped and the outcome is classified
Close(classification, e) ==
    /\ pc' = "closed"
    /\ result' = classification
    /\ err' = e
    /\ target' = IF target = "open" THEN "closed" ELSE target
    /\ listener' = IF listener = "listening" THEN "closed" ELSE listener

\* the client stops reading: every later write to it fails
ClientClosesRead ==
    /\ pc # "closed"
    /\ writable
    /\ writable' = FALSE
    /\ UNCHANGED <<pc, supported, out, greetingIn, greeting, method, requestIn, request,
                   cmdResult, connects, target, listener, relay, err, result, dnsAnswer>>
    /\ UNCHANGED <<wire, tasks, config, server, connection_result>>

\* handshake, first half: MethodHandler::parse_client_greeting
ParseClientGreeting ==
    /\ pc = "greeting"
    /\ \E in \in GreetingInputs :
         LET r == parse_client_greeting(in)
         IN  /\ greetingIn' = in
             /\ greeting' = r.greeting
             /\ IF r.err = NoErr
                THEN /\ pc' = "negotiate"
                     /\ UNCHANGED <<result, err, target, listener>>
                ELSE Close("handshake_error", r.err)
    /\ UNCHANGED <<supported, writable, out, method, requestIn, request, cmdResult,
                   connects, relay, dnsAnswer>>
    /\ UNCHANGED <<wire, tasks, config, server, connection_result>>

\* handshake, second half: ClientGreeting::validate, then
\* MethodHandler::handle_client_methods
NegotiateMethod ==
    /\ pc = "negotiate"
    /\ LET g == Unwrap(greeting)
           r == handle_client_methods(g.methods, supported, writable)
       IN  IF ClientGreeting_validate(g) # ""
           THEN /\ Close("handshake_error", IoErr("InvalidData", ClientGreeting_validate(g)))
                /\ UNCHANGED <<out, method>>
           ELSE /\ out' = out \o r.frames
                /\ method' = r.method
                /\ IF r.err = NoErr
                   THEN /\ pc' = "request"
                        /\ UNCHANGED <<result, err, target, listener>>
                   ELSE Close("handshake_error", r.err)
    /\ UNCHANGED <<supported, writable, greetingIn, greeting, requestIn, request,
                   cmdResult, connects, relay, dnsAnswer>>
    /\ UNCHANGED <<wire, tasks, config, server, connection_result>>

\* a handshake deadline that refuses the methods before it returns
HandshakeTimeout_with_refusal ==
    /\ pc \in {"greeting", "negotiate"}
    /\ out' = Append(out, <<SOCKS5_VERSION, NO_ACCEPTABLE_METHODS>>)
    /\ Close("handshake_timeout", IoErr("TimedOut", "Handshake timeout"))
    /\ UNCHANGED <<supported, writable, greetingIn, greeting, method, requestIn,
                   request, cmdResult, connects, relay, dnsAnswer>>
    /\ UNCHANGED <<wire, tasks, config, server, connection_result>>

\* the handshake deadline passes before the handshake has completed
HandshakeTimeout ==
    /\ pc \in {"greeting", "negotiate"}
    /\ Close("handshake_timeout", IoErr("TimedOut", "Handshake timeout"))
    /\ UNCHANGED <<supported, writable, out, greetingIn, greeting, method, requestIn,
                   request, cmdResult, connects, relay, dnsAnswer>>
    /\ UNCHANGED <<wire, tasks, config, server, connection_result>>

\* handle_request, first half: SocksRequest::parse_request
ParseRequest ==
    /\ pc = "request"
    /\ \E in \in RequestInputs, dns \in DnsOutcomes :
         LET r == parse_request(in, dns, writable)
         IN  /\ requestIn' = in
             /\ request' = r.request
             /\ dnsAnswer' = IF r.asked THEN Some(dns) ELSE None
             /\ out' = out \o r.frames
             /\ IF r.err = NoErr
                THEN /\ pc' = "dispatch"
                     /\ UNCHANGED <<result, err, target, listener>>
                ELSE Close("request_error", r.err)
    /\ UNCHANGED <<supported, writable, greetingIn, greeting, method, cmdResult,
                   connects, relay>>
    /\ UNCHANGED <<wire, tasks, config, server, connection_result>>

\* handle_client_request: Command::parse_command finds no command
RejectUnknownCommand ==
    /\ pc = "dispatch"
    /\ parse_command(Unwrap(request).command) = None
    /\ out' = out \o Written(send_error_reply(COMMAND_NOT_SUPPORTED), writable)
    /\ Close("command_error",
             IF writable THEN IoErr("InvalidData", "Unsupported SOCKS command") ELSE WriteErr)
    /\ UNCHANGED <<supported, writable, greetingIn, greeting, method, requestIn, request,
                   cmdResult, connects, relay, dnsAnswer>>
    /\ UNCHANGED <<wire, tasks, config, server, connection_result>>

\* connect::handle_command that writes the success reply before the connect
\* has returned
ExecuteConnect_replies_first ==
    /\ pc = "dispatch"
    /\ parse_command(Unwrap(request).command) = Some(CONNECT)
    /\ pc' = "connecting"
    /\ connects' = connects + 1
    /\ out' = out \o Written(send_reply(SUCCESS, IPV4, ERROR_ADDR, ERROR_PORT), writable)
    /\ UNCHANGED <<supported, writable, greetingIn, greeting, method, requestIn,
                   request, cmdResult, target, listener, relay, err, result, dnsAnswer>>
    /\ UNCHANGED <<wire, tasks, config, server, connection_result>>

\* a dispatch that starts the outbound connect for every known command
ExecuteConnect_for_every_command ==
    /\ pc = "dispatch"
    /\ parse_command(Unwrap(request).command) # None
    /\ pc' = "connecting"
    /\ connects' = connects + 1
    /\ UNCHANGED <<supported, writable, out, greetingIn, greeting, method, requestIn,
                   request, cmdResult, target, listener, relay, err, result, dnsAnswer>>
    /\ UNCHANGED <<wire, tasks, config, server, connection_result>>

\* Command::execute for CONNECT: connect::handle_command starts TcpStream::connect
ExecuteConnect ==
    /\ pc = "dispatch"
    /\ parse_command(Unwrap(request).command) = Some(CONNECT)
    /\ pc' = "connecting"
    /\ connects' = connects + 1
    /\ UNCHANGED <<supported, writable, out, greetingIn, greeting, method, requestIn,
                   request, cmdResult, target, listener, relay, err, result, dnsAnswer>>
    /\ UNCHANGED <<wire, tasks, config, server, connection_result>>

\* connect::handle_command: TcpStream::connect fails with ErrorKind kind
ConnectFails ==
    /\ pc = "connecting"
    /\ \E kind \in ConnectErrorKinds :
         /\ out' = out \o Written(send_error_reply(connect_error_code(kind)), writable)
         /\ Close("command_error", IoErr(kind, "connect"))
    /\ cmdResult' = Returned("Err", None)
    /\ UNCHANGED <<supported, writable, greetingIn, greeting, method, requestIn, request,
                   connects, relay, dnsAnswer>>
    /\ UNCHANGED <<wire, tasks, config, server, connection_result>>

\* connect::handle_command: TcpStream::connect succeeds, the success reply is
\* written and the two copies start
ConnectSucceeds ==
    /\ pc = "connecting"
    /\ \E local \in LocalAddrs :
         /\ local.ip.fam = Unwrap(request).dest_addr.fam
         /\ IF writable
            THEN /\ out' = Append(out, send_reply(SUCCESS,
                                                  IF local.ip.fam = 4 THEN IPV4 ELSE IPV6,
                                                  local.ip.octets, local.port))
                 /\ pc' = "relay"
                 /\ target' = "open"
                 /\ relay' = [c2t |-> "open", t2c |-> "open"]
                 /\ \E payload \in Payloads : wire' = NewWire(payload)
                 /\ UNCHANGED <<cmdResult, err, result, listener>>
            ELSE /\ pc' = "closed"
                 /\ result' = "command_error"
                 /\ err' = WriteErr
                 /\ target' = "closed"
                 /\ cmdResult' = Returned("Err", None)
                 /\ UNCHANGED <<out, relay, listener, wire>>
    /\ UNCHANGED <<supported, writable, greetingIn, greeting, method, requestIn, request,
                   connects, dnsAnswer>>
    /\ UNCHANGED <<tasks, config, server, connection_result>>

\* connect::handle_command: the client-to-target copy moves octets
CopyClientToTarget ==
    /\ pc = "relay"
    /\ relay.c2t = "open"
    /\ \E n \in 1..Len(wire.unsent) : wire' = copy_client_to_target(wire, n)
    /\ UNCHANGED <<pc, supported, writable, out, greetingIn, greeting, method, requestIn,
                   request, cmdResult, connects, target, listener, relay, dnsAnswer, err,
                   result>>
    /\ UNCHANGED <<tasks, config, server, connection_result>>

\* the echo target writes back what it has received
TargetEchoes ==
    /\ pc = "relay"
    /\ target = "open"
    /\ relay.t2c = "open"
    /\ \E n \in 1..(Len(wire.atTarget) - wire.echoed) : wire' = target_echoes(wire, n)
    /\ UNCHANGED <<pc, supported, writable, out, greetingIn, greeting, method, requestIn,
                   request, cmdResult, connects, target, listener, relay, dnsAnswer, err,
                   result>>
    /\ UNCHANGED <<tasks, config, server, connection_result>>

\* connect::handle_command: the target-to-client copy moves octets
CopyTargetToClient ==
    /\ pc = "relay"
    /\ relay.t2c = "open"
    /\ writable
    /\ \E n \in 1..Len(wire.back) : wire' = copy_target_to_client(wire, n)
    /\ UNCHANGED <<pc, supported, writable, out, greetingIn, greeting, method, requestIn,
                   request, cmdResult, connects, target, listener, relay, dnsAnswer, err,
                   result>>
    /\ UNCHANGED <<tasks, config, server, connection_result>>

\* connect::handle_command: one copy of the join! ends; once both have ended
\* the handler returns the first error, client-to-target first
RelayDirectionEnds ==
    /\ pc = "relay"
    /\ \E d \in {"c2t", "t2c"}, how \in {"eof", "error"} :
         /\ relay[d] = "open"
         /\ (d = "c2t" /\ how = "eof") => wire.unsent = <<>>
         /\ (d = "t2c" /\ how = "eof") => wire.back = <<>>
         /\ relay' = [relay EXCEPT ![d] = how]
         /\ IF relay'.c2t # "open" /\ relay'.t2c # "open"
            THEN IF relay'.c2t = "error" \/ relay'.t2c = "error"
                 THEN /\ Close("relay_error", IoErr("Other", "copy"))
                      /\ cmdResult' = Returned("Err", None)
                 ELSE /\ Close("ok", NoErr)
                      /\ cmdResult' = Returned("Unit", None)
            ELSE UNCHANGED <<pc, result, err, target, listener, cmdResult>>
    /\ UNCHANGED <<supported, writable, out, greetingIn, greeting, method, requestIn,
                   request, connects, dnsAnswer>>
    /\ UNCHANGED <<wire, tasks, config, server, connection_result>>

\* udp_associate::handle_command that returns its error without writing the
\* reply
ExecuteUdpAssociate_without_reply ==
    /\ pc = "dispatch"
    /\ parse_command(Unwrap(request).command) = Some(UDP_ASSOCIATE)
    /\ out' = out
    /\ cmdResult' = Returned("Err", None)
    /\ Close("command_error",
             IoErr("Unsupported", "UDP ASSOCIATE request handling not implemented"))
    /\ UNCHANGED <<supported, writable, greetingIn, greeting, method, requestIn, request,
                   connects, relay, dnsAnswer>>
    /\ UNCHANGED <<wire, tasks, config, server, connection_result>>

\* Command::execute for UDP ASSOCIATE: udp_associate::handle_command writes the
\* reply itself and returns Err
ExecuteUdpAssociate ==
    /\ pc = "dispatch"
    /\ parse_command(Unwrap(request).command) = Some(UDP_ASSOCIATE)
    /\ out' = out \o Written(send_reply(COMMAND_NOT_SUPPORTED, IPV4, ERROR_ADDR, ERROR_PORT),
                             writable)
    /\ cmdResult' = Returned("Err", None)
    /\ Close("command_error",
             IF writable
             THEN IoErr("Unsupported", "UDP ASSOCIATE request handling not implemented")
             ELSE WriteErr)
    /\ UNCHANGED <<supported, writable, greetingIn, greeting, method, requestIn, request,
                   connects, relay, dnsAnswer>>
    /\ UNCHANGED <<wire, tasks, config, server, connection_result>>

\* Command::execute for BIND: bind::handle_command starts TcpListener::bind
ExecuteBind ==
    /\ pc = "dispatch"
    /\ parse_command(Unwrap(request).command) = Some(BIND)
    /\ pc' = "binding"
    /\ UNCHANGED <<supported, writable, out, greetingIn, greeting, method, requestIn,
                   request, cmdResult, connects, target, listener, relay, err, result, dnsAnswer>>
    /\ UNCHANGED <<wire, tasks, config, server, connection_result>>

\* handle_client_request once Command::execute has returned Ok(r): the result
\* is serialized with r.send_reply, and the relay is entered only for a
\* success that carries a stream
SendResultReply(frames, r) ==
    IF writable
    THEN /\ out' = out \o frames \o <<CommandResult_send_reply(r)>>
         /\ cmdResult' = Returned("Ok", Some(r))
         /\ Close("ok", NoErr)
    ELSE /\ out' = out
         /\ cmdResult' = Returned("Ok", Some(r))
         /\ Close("command_error", WriteErr)

\* bind::handle_command: TcpListener::bind("0.0.0.0:0") returns; on success the
\* first reply, with the listener's address, is written before the accept
BindListens ==
    /\ pc = "binding"
    /\ \/ \E port \in BoundPorts :
            IF writable
            THEN /\ out' = Append(out, CommandResult_send_reply(
                                           CommandResult_success(IpV4(<<0, 0, 0, 0>>), port)))
                 /\ listener' = "listening"
                 /\ pc' = "accepting"
                 /\ UNCHANGED <<cmdResult, err, result, target>>
            ELSE /\ out' = out
                 /\ cmdResult' = Returned("Err", None)
                 /\ Close("command_error", WriteErr)
       \/ SendResultReply(<<>>, CommandResult_error(GENERAL_FAILURE))
    /\ UNCHANGED <<supported, writable, greetingIn, greeting, method, requestIn, request,
                   connects, relay, dnsAnswer>>
    /\ UNCHANGED <<wire, tasks, config, server, connection_result>>

\* a second reply that reports every accepted peer as success
second_reply_success_for_any_peer(outcome, dest_addr) ==
    CASE outcome.kind = "accepted" ->
            CommandResult_success(outcome.peer.ip, outcome.peer.port)
      [] outcome.kind = "accept_error" -> CommandResult_error(GENERAL_FAILURE)
      [] outcome.kind = "timeout" -> CommandResult_error(TTL_EXPIRED)

\* the second reply of bind::handle_command, by what the accept produced
second_reply(outcome, dest_addr) ==
    CASE outcome.kind = "accepted" /\ outcome.peer.ip = dest_addr ->
            CommandResult_success(outcome.peer.ip, outcome.peer.port)
      [] outcome.kind = "accepted" /\ outcome.peer.ip # dest_addr ->
            CommandResult_error(CONNECTION_REFUSED)
      [] outcome.kind = "accept_error" -> CommandResult_error(GENERAL_FAILURE)
      [] outcome.kind = "timeout" -> CommandResult_error(TTL_EXPIRED)

\* what listener.accept() under its 30 second timeout may produce
AcceptOutcomes ==
    {[kind |-> "accepted", peer |-> p] : p \in PeerAddrs}
    \cup {[kind |-> k, peer |-> [ip |-> IpV4(ERROR_ADDR), port |-> 0]] :
            k \in {"accept_error", "timeout"}}

\* bind::handle_command: the accept returns, the second reply is written and
\* returned, and handle_client_request serializes the returned result
BindAccepts ==
    /\ pc = "accepting"
    /\ \E outcome \in AcceptOutcomes :
         LET second == second_reply(outcome, Unwrap(request).dest_addr)
         IN  /\ connection_result' = Some(outcome)
             /\ IF writable
                THEN SendResultReply(<<CommandResult_send_reply(second)>>, second)
                ELSE /\ out' = out
                     /\ cmdResult' = Returned("Err", None)
                     /\ Close("command_error", WriteErr)
    /\ UNCHANGED <<supported, writable, greetingIn, greeting, method, requestIn, request,
                   connects, relay, dnsAnswer>>
    /\ UNCHANGED <<wire, tasks, config, server>>

\* a connection deadline that does not cover the relay
ConnectionTimeout_before_relay_only ==
    /\ pc \in {"request", "dispatch", "connecting", "binding", "accepting"}
    /\ Close("connection_timeout", IoErr("TimedOut", "Connection timeout"))
    /\ UNCHANGED <<supported, writable, out, greetingIn, greeting, method, requestIn,
                   request, cmdResult, connects, relay, dnsAnswer>>
    /\ UNCHANGED <<wire, tasks, config, server, connection_result>>

\* the connection deadline passes during the request exchange or the relay
ConnectionTimeout ==
    /\ pc \in {"request", "dispatch", "connecting", "binding", "accepting", "relay"}
    /\ Close("connection_timeout", IoErr("TimedOut", "Connection timeout"))
    /\ UNCHANGED <<supported, writable, out, greetingIn, greeting, method, requestIn,
                   request, cmdResult, connects, relay, dnsAnswer>>
    /\ UNCHANGED <<wire, tasks, config, server, connection_result>>

Next ==
    \/ ClientClosesRead
    \/ ParseClientGreeting
    \/ NegotiateMethod
    \/ HandshakeTimeout
    \/ ParseRequest
    \/ RejectUnknownCommand
    \/ ExecuteConnect
    \/ ConnectFails
    \/ ConnectSucceeds
    \/ CopyClientToTarget
    \/ TargetEchoes
    \/ CopyTargetToClient
    \/ RelayDirectionEnds
    \/ ExecuteUdpAssociate
    \/ ExecuteBind
    \/ BindListens
    \/ BindAccepts
    \/ ConnectionTimeout

Spec ==
    Init /\ [][Next]_vars

\* the connection with its two deadlines as timers: a deadline that stays due
\* does pass
SpecLive ==
    Spec /\ WF_vars(HandshakeTimeout) /\ WF_vars(ConnectionTimeout)

-----------------------------------------------------------------------------
(* Several connections at once: the accept loop spawns one task per        *)
(* connection, and each task has taken its own connection through method   *)
(* selection and CONNECT, as in Spec, and relays between its own sockets.  *)

\* what client c sends: "c" and the digit of c
TaskPayload(c) ==
    <<99, 48 + c>>

\* the relay of a freshly spawned task
NewTask(c) ==
    [relay |-> [c2t |-> "open", t2c |-> "open"], wire |-> NewWire(TaskPayload(c))]

\* the tasks whose relay has not returned
Relaying ==
    {c \in 1..Len(tasks) : tasks[c].relay.c2t = "open" \/ tasks[c].relay.t2c = "open"}

InitConcurrent ==
    /\ Init
    /\ supported = <<NO_AUTHENTICATION_REQUIRED>>

\* ProxyServer::spawn_connection_handler: the accepted socket moves into a
\* task of its own
SpawnConnectionHandler ==
    /\ Len(tasks) < MaxConns
    /\ tasks' = Append(tasks, NewTask(Len(tasks) + 1))
    /\ UNCHANGED <<connVars, config, server>>

\* task c: its client-to-target copy moves octets
TaskCopiesClientToTarget ==
    /\ \E c \in Relaying :
         /\ tasks[c].relay.c2t = "open"
         /\ \E n \in 1..Len(tasks[c].wire.unsent) :
              tasks' = [tasks EXCEPT ![c].wire = copy_client_to_target(@, n)]
    /\ UNCHANGED <<connVars, config, server>>

\* the echo target of task c writes back what it has received
TaskTargetEchoes ==
    /\ \E c \in Relaying :
         /\ tasks[c].relay.t2c = "open"
         /\ \E n \in 1..(Len(tasks[c].wire.atTarget) - tasks[c].wire.echoed) :
              tasks' = [tasks EXCEPT ![c].wire = target_echoes(@, n)]
    /\ UNCHANGED <<connVars, config, server>>

\* a target-to-client copy that writes to the first connection's client,
\* as if the tasks shared one writer
TaskCopiesTargetToClient_shared_writer ==
    /\ \E c \in Relaying :
         /\ tasks[c].relay.t2c = "open"
         /\ \E n \in 1..Len(tasks[c].wire.back) :
              LET chunk == SubSeq(tasks[c].wire.back, 1, n)
                  taken == [tasks EXCEPT ![c].wire.back =
                                            SubSeq(@, n + 1, Len(@))]
              IN  tasks' = [taken EXCEPT ![1].wire.atClient = @ \o chunk]
    /\ UNCHANGED <<connVars, config, server>>

\* task c: its target-to-client copy moves octets
TaskCopiesTargetToClient ==
    /\ \E c \in Relaying :
         /\ tasks[c].relay.t2c = "open"
         /\ \E n \in 1..Len(tasks[c].wire.back) :
              tasks' = [tasks EXCEPT ![c].wire = copy_target_to_client(@, n)]
    /\ UNCHANGED <<connVars, config, server>>

\* task c: one copy of its join! ends, at end of stream once the data before
\* it has been read, or with an error
TaskDirectionEnds ==
    /\ \E c \in Relaying, d \in {"c2t", "t2c"}, how \in {"eof", "error"} :
         /\ tasks[c].relay[d] = "open"
         /\ (d = "c2t" /\ how = "eof") => tasks[c].wire.unsent = <<>>
         /\ (d = "t2c" /\ how = "eof") => tasks[c].wire.back = <<>>
         /\ tasks' = [tasks EXCEPT ![c].relay[d] = how]
    /\ UNCHANGED <<connVars, config, server>>

NextConcurrent ==
    \/ SpawnConnectionHandler
    \/ TaskCopiesClientToTarget
    \/ TaskTargetEchoes
    \/ TaskCopiesTargetToClient
    \/ TaskDirectionEnds

SpecConcurrent ==
    InitConcurrent /\ [][NextConcurrent]_vars

-----------------------------------------------------------------------------
(* The process: validation of the configuration, the listener, and the     *)
(* accept loop that counts the running drivers and admits or drops each    *)
(* accepted connection.                                                    *)

\* a connection the listener has returned: where it is, whether a SOCKS octet
\* has been written to it, how often the counter was incremented and
\* decremented on its behalf, and whether a shutdown broadcast waits in the
\* receiver of its task
Accepted ==
    [state |-> "accepted", wrote |-> FALSE, incremented |-> 0, decremented |-> 0,
     notified |-> FALSE]

\* the connections a driver is running for
Running ==
    {i \in 1..Len(server.conns) : server.conns[i].state = "running"}

\* the variables of a connection that no driver has touched
Untouched ==
    /\ writable = TRUE
    /\ out = <<>>
    /\ greetingIn = NoInput
    /\ requestIn = NoInput
    /\ request = None
    /\ cmdResult = None
    /\ connects = 0
    /\ target = "none"
    /\ listener = "none"
    /\ relay = [c2t |-> "idle", t2c |-> "idle"]
    /\ dnsAnswer = None
    /\ err = NoErr
    /\ result = "running"
    /\ wire = NoWire
    /\ tasks = <<>>
    /\ connection_result = None

\* the configurations ProxyServer is built with: it is given its address as
\* an argument and reads max_connections alone, so the other fields are kept
\* at one valid value
ServerConfigs ==
    {ProxyConfig(1080, m, 1, <<"none">>) : m \in 0..MaxConns}

InitServer ==
    /\ Untouched
    /\ pc = "greeting"
    /\ greeting = None
    /\ method = None
    /\ config \in ProxyConfigs
    /\ supported = supported_auth_methods(config)
    /\ server \in {NotStarted(loop) : loop \in AcceptLoops}
    /\ server.loop = "ProxyServer" => config \in ServerConfigs

\* main: config.validate(); on Err the process exits with code 1
Validate ==
    /\ server.loop = "start_server"
    /\ server.state = "start"
    /\ server' = [server EXCEPT !.validation = Some(ProxyConfig_validate(config)),
                                !.state = IF ProxyConfig_validate(config) = ""
                                          THEN "validated" ELSE "exited"]
    /\ UNCHANGED <<connVars, tasks, config>>

\* start_server / ProxyServer::new: TcpListener::bind returns the listener,
\* or the error the process ends with
BindListener ==
    /\ \/ server.loop = "start_server" /\ server.state = "validated"
       \/ server.loop = "ProxyServer" /\ server.state = "start"
    /\ \E bound \in BOOLEAN :
         server' = [server EXCEPT !.state = IF bound THEN "listening" ELSE "exited"]
    /\ UNCHANGED <<connVars, tasks, config>>

\* the accept loop: listener.accept() returns a connection
AcceptConnection ==
    /\ server.state = "listening"
    /\ server.pc = "accept"
    /\ Len(server.conns) < MaxAccepts
    /\ server' = [server EXCEPT !.conns = Append(@, Accepted), !.pc = "count"]
    /\ UNCHANGED <<connVars, tasks, config>>

\* the accept loop reads the counter: should_reject_connection increments it
\* and keeps the new count, start_server loads it
CountConnection ==
    /\ server.pc = "count"
    /\ IF server.loop = "ProxyServer"
       THEN server' = [server EXCEPT !.active_connections = @ + 1,
                                     !.seen = server.active_connections + 1,
                                     !.conns[Len(server.conns)].incremented = @ + 1,
                                     !.pc = "decide"]
       ELSE server' = [server EXCEPT !.seen = server.active_connections,
                                     !.pc = "decide"]
    /\ UNCHANGED <<connVars, tasks, config>>

\* an admission test that lets one connection more through
should_reject_off_by_one(loop, seen, max_connections) ==
    IF loop = "ProxyServer" THEN seen > max_connections + 1 ELSE seen > max_connections

\* the admission test: should_reject_connection compares the count it has
\* incremented, start_server the count it has loaded
should_reject(loop, seen, max_connections) ==
    IF loop = "ProxyServer" THEN seen > max_connections ELSE seen >= max_connections

\* the limit is reached: the socket is dropped (should_reject_connection
\* first takes its increment back)
RejectConnection ==
    /\ server.pc = "decide"
    /\ should_reject(server.loop, server.seen, config.max_connections)
    /\ server' = [server EXCEPT
                    !.active_connections = IF server.loop = "ProxyServer" THEN @ - 1 ELSE @,
                    !.conns[Len(server.conns)].decremented =
                        IF server.loop = "ProxyServer" THEN @ + 1 ELSE @,
                    !.conns[Len(server.conns)].state = "dropped",
                    !.pc = "accept"]
    /\ UNCHANGED <<connVars, tasks, config>>

\* below the limit: a driver is spawned for the connection (start_server
\* increments the counter now)
AdmitConnection ==
    /\ server.pc = "decide"
    /\ ~should_reject(server.loop, server.seen, config.max_connections)
    /\ server' = [server EXCEPT
                    !.active_connections = IF server.loop = "ProxyServer" THEN @ ELSE @ + 1,
                    !.conns[Len(server.conns)].incremented =
                        IF server.loop = "ProxyServer" THEN @ ELSE @ + 1,
                    !.conns[Len(server.conns)].state = "running",
                    !.pc = "accept"]
    /\ UNCHANGED <<connVars, tasks, config>>

\* a running driver writes to its client
DriverWrites ==
    /\ \E i \in Running :
         /\ ~server.conns[i].wrote
         /\ server' = [server EXCEPT !.conns[i].wrote = TRUE]
    /\ UNCHANGED <<connVars, tasks, config>>

\* a driver returns, with Ok or Err: the task decrements the counter (the drop
\* of ConnectionGuard, the fetch_sub of start_server's task)
DriverFinishes ==
    /\ \E i \in Running :
         server' = [server EXCEPT !.conns[i].state = "finished",
                                  !.conns[i].decremented = @ + 1,
                                  !.active_connections = @ - 1]
    /\ UNCHANGED <<connVars, tasks, config>>

\* ProxyServer::run: SIGINT or SIGTERM arrives; select! drops the accept loop,
\* which is waiting in accept(), and calls shutdown
ShutdownSignal ==
    /\ server.loop = "ProxyServer"
    /\ server.state = "listening"
    /\ server.pc = "accept"
    /\ server' = [server EXCEPT !.state = "shutdown", !.shutdown.pc = "load"]
    /\ UNCHANGED <<connVars, tasks, config>>

\* ProxyServer::shutdown loads the counter: with no active connection it
\* returns at once
ShutdownLoads ==
    /\ server.state = "shutdown"
    /\ server.shutdown.pc = "load"
    /\ server' = [server EXCEPT
                    !.shutdown.remaining = server.active_connections,
                    !.shutdown.pc = IF server.active_connections > 0 THEN "send" ELSE "idle",
                    !.state = IF server.active_connections > 0 THEN "shutdown" ELSE "stopped"]
    /\ UNCHANGED <<connVars, tasks, config>>

\* shutdown_tx.send(()): every task spawned and not yet ended has subscribed
\* and finds the message in its receiver
ShutdownBroadcasts ==
    /\ server.state = "shutdown"
    /\ server.shutdown.pc = "send"
    /\ server' = [server EXCEPT
                    !.conns = [i \in 1..Len(server.conns) |->
                                 IF i \in Running THEN [@[i] EXCEPT !.notified = TRUE]
                                 ELSE @[i]],
                    !.shutdown.broadcasts = @ + 1,
                    !.shutdown.pc = "wait"]
    /\ UNCHANGED <<connVars, tasks, config>>

\* shutdown_timeout passes while shutdown polls the counter
ShutdownTimeoutElapses ==
    /\ server.state = "shutdown"
    /\ server.shutdown.pc = "wait"
    /\ ~server.shutdown.elapsed
    /\ server' = [server EXCEPT !.shutdown.elapsed = TRUE]
    /\ UNCHANGED <<connVars, tasks, config>>

\* a shutdown that waits for the counter alone
ShutdownReturns_without_timeout ==
    /\ server.state = "shutdown"
    /\ server.shutdown.pc = "wait"
    /\ server.active_connections = 0
    /\ server' = [server EXCEPT
                    !.shutdown.remaining = server.active_connections,
                    !.shutdown.pc = "idle",
                    !.state = "stopped"]
    /\ UNCHANGED <<connVars, tasks, config>>

\* the polling loop of shutdown ends: the counter is 0 or shutdown_timeout has
\* elapsed; with connections remaining the broadcast is sent once more
ShutdownReturns ==
    /\ server.state = "shutdown"
    /\ server.shutdown.pc = "wait"
    /\ server.active_connections = 0 \/ server.shutdown.elapsed
    /\ server' = [server EXCEPT
                    !.shutdown.remaining = server.active_connections,
                    !.shutdown.broadcasts =
                        IF server.active_connections > 0 THEN @ + 1 ELSE @,
                    !.shutdown.pc = "idle",
                    !.state = "stopped"]
    /\ UNCHANGED <<connVars, tasks, config>>

\* a task that leaves on the broadcast without dropping its ConnectionGuard
HandlerInterrupted_without_release ==
    /\ \E i \in Running :
         /\ server.conns[i].notified
         /\ server' = [server EXCEPT !.conns[i].state = "interrupted"]
    /\ UNCHANGED <<connVars, tasks, config>>

\* the select! of a spawned task takes shutdown_rx.recv(): the task returns,
\* the driver and its socket are dropped and ConnectionGuard decrements the
\* counter
HandlerInterrupted ==
    /\ \E i \in Running :
         /\ server.conns[i].notified
         /\ server' = [server EXCEPT !.conns[i].state = "interrupted",
                                      !.conns[i].decremented = @ + 1,
                                      !.active_connections = @ - 1]
    /\ UNCHANGED <<connVars, tasks, config>>

NextServer ==
    \/ Validate
    \/ BindListener
    \/ AcceptConnection
    \/ CountConnection
    \/ RejectConnection
    \/ AdmitConnection
    \/ DriverWrites
    \/ DriverFinishes
    \/ ShutdownSignal
    \/ ShutdownLoads
    \/ ShutdownBroadcasts
    \/ ShutdownTimeoutElapses
    \/ ShutdownReturns
    \/ HandlerInterrupted

SpecServer ==
    InitServer /\ [][NextServer]_vars

\* the process with shutdown as code that runs and shutdown_timeout as a
\* timer; nothing is assumed of the handlers and their clients
SpecServerLive ==
    /\ SpecServer
    /\ WF_vars(ShutdownLoads)
    /\ WF_vars(ShutdownBroadcasts)
    /\ WF_vars(ShutdownTimeoutElapses)
    /\ WF_vars(ShutdownReturns)

-----------------------------------------------------------------------------
(* MethodHandler::negotiate on its own: called with any two lists of       *)
(* method tags, in any order and with repetitions.                         *)

\* the tags of the priority order
MethodTags ==
    {NO_AUTHENTICATION_REQUIRED, GSSAPI, USERNAME_PASSWORD, IANA_ASSIGNED,
     RESERVED_FOR_PRIVATE_METHODS}

\* a greeting that carries the client list the call is made with
GreetingOf(methods) ==
    [version |-> SOCKS5_VERSION, nmethods |-> Len(methods), methods |-> methods]

InitNegotiate ==
    /\ Untouched
    /\ pc = "negotiate"
    /\ method = None
    /\ config = DefaultConfig
    /\ server = NotStarted("start_server")
    /\ supported \in SeqsUpTo(MethodTags, MaxMethods)
    /\ greeting \in {Some(GreetingOf(ms)) : ms \in SeqsUpTo(MethodTags, MaxMethods)}

\* the call negotiate(client_methods, server_methods)
CallNegotiate ==
    /\ pc = "negotiate"
    /\ method' = negotiate(Unwrap(greeting).methods, supported)
    /\ pc' = "negotiated"
    /\ UNCHANGED <<supported, writable, out, greetingIn, greeting, requestIn, request,
                   cmdResult, connects, target, listener, relay, dnsAnswer, err, result>>
    /\ UNCHANGED <<wire, tasks, config, server, connection_result>>

NextNegotiate ==
    CallNegotiate

SpecNegotiate ==
    InitNegotiate /\ [][NextNegotiate]_vars

-----------------------------------------------------------------------------
(* handshake::perform_handshake on its own: called on a connection whose   *)
(* client has sent any greeting, whole or cut short.                       *)

InitHandshake ==
    /\ Untouched
    /\ pc = "greeting"
    /\ greeting = None
    /\ method = None
    /\ config = DefaultConfig
    /\ server = NotStarted("start_server")
    /\ supported = supported_auth_methods(config)

\* the call perform_handshake(reader, writer, client_addr)
PerformHandshake ==
    /\ pc = "greeting"
    /\ \E in \in GreetingInputs :
         LET r == perform_handshake(in, writable)
         IN  /\ greetingIn' = in
             /\ greeting' = r.greeting
             /\ out' = out \o r.frames
             /\ err' = r.err
    /\ pc' = "returned"
    /\ UNCHANGED <<supported, writable, method, requestIn, request, cmdResult, connects,
                   target, listener, relay, dnsAnswer, result>>
    /\ UNCHANGED <<wire, tasks, config, server, connection_result>>

NextHandshake ==
    \/ ClientClosesRead
    \/ PerformHandshake

SpecHandshake ==
    InitHandshake /\ [][NextHandshake]_vars

-----------------------------------------------------------------------------
(* The two encoders of a reply, CommandResult::send_reply and              *)
(* CommandResult::send_reply_optimized, called one after the other on the  *)
(* same CommandResult.                                                     *)

\* reply codes: success, two refusals and the largest octet
ReplyCodes == {SUCCESS, GENERAL_FAILURE, CONNECTION_REFUSED, 255}

\* bind addresses of both families, with the smallest and largest octets
BindAddrs ==
    {IpV4(ERROR_ADDR), IpV4(LOCALHOST_V4), IpV4(<<255, 255, 255, 255>>),
     IpV6(LOCALHOST_V6), IpV6([i \in 1..16 |-> 255])}

\* bind ports: the ends of the range, both sides of the octet boundary, and
\* one whose octets differ
BindPorts == {0, 255, 256, 8080, 65535}

\* the CommandResults the encoders are called on
CommandResults ==
    {[reply_code |-> c, bind_addr |-> a, bind_port |-> p, stream |-> FALSE] :
       c \in ReplyCodes, a \in BindAddrs, p \in BindPorts}

InitReply ==
    /\ pc = "send_reply"
    /\ cmdResult \in {Returned("Ok", Some(r)) : r \in CommandResults}
    /\ writable = TRUE
    /\ out = <<>>
    /\ greetingIn = NoInput
    /\ greeting = None
    /\ method = None
    /\ requestIn = NoInput
    /\ request = None
    /\ connects = 0
    /\ target = "none"
    /\ listener = "none"
    /\ relay = [c2t |-> "idle", t2c |-> "idle"]
    /\ dnsAnswer = None
    /\ err = NoErr
    /\ result = "running"
    /\ wire = NoWire
    /\ tasks = <<>>
    /\ connection_result = None
    /\ config = DefaultConfig
    /\ server = NotStarted("start_server")
    /\ supported = supported_auth_methods(config)

\* result.send_reply(writer)
CallSendReply ==
    /\ pc = "send_reply"
    /\ out' = Append(out, CommandResult_send_reply(Unwrap(Unwrap(cmdResult).value)))
    /\ pc' = "send_reply_optimized"
    /\ UNCHANGED <<supported, writable, greetingIn, greeting, method, requestIn, request,
                   cmdResult, connects, target, listener, relay, dnsAnswer, err, result>>
    /\ UNCHANGED <<wire, tasks, config, server, connection_result>>

\* result.send_reply_optimized(writer)
CallSendReplyOptimized ==
    /\ pc = "send_reply_optimized"
    /\ out' = Append(out, send_reply_optimized(Unwrap(Unwrap(cmdResult).value)).frame)
    /\ pc' = "returned"
    /\ UNCHANGED <<supported, writable, greetingIn, greeting, method, requestIn, request,
                   cmdResult, connects, target, listener, relay, dnsAnswer, err, result>>
    /\ UNCHANGED <<wire, tasks, config, server, connection_result>>

NextReply ==
    \/ CallSendReply
    \/ CallSendReplyOptimized

SpecReply ==
    InitReply /\ [][NextReply]_vars

-----------------------------------------------------------------------------
(* Properties of the handshake.                                            *)

\* the greeting has been parsed and the method negotiation has run
Negotiated ==
    /\ greeting # None
    /\ pc \notin {"greeting", "negotiate"}
    /\ result # "handshake_timeout"

\* the request has been parsed and dispatched, and the connection has ended
\* without the connection deadline cutting it short
Dispatched ==
    /\ request # None
    /\ pc = "closed"
    /\ result # "connection_timeout"

\* C1: a well-formed greeting whose method list contains 0x00, anywhere and
\* among any other tags, negotiated by a server whose supported set contains
\* 0x00, is answered with exactly [05, 00] and the handshake succeeds (the
\* client still accepting what the server writes)
C1_NoAuthIsSelected ==
    (/\ Negotiated
     /\ writable
     /\ Contains(Unwrap(greeting).methods, 0)
     /\ Contains(supported, 0))
    => /\ Len(out) >= 1
       /\ out[1] = <<5, 0>>
       /\ method = Some(0)
       /\ result # "handshake_error"
       /\ pc = "request" => out = <<<<5, 0>>>>

\* C1 witness: 0x00 offered in second place after username/password, which
\* the server supports too, and the request phase is entered
C1_Witness ==
    /\ pc = "request"
    /\ greetingIn.bytes = <<5, 2, 2, 0>>
    /\ supported = <<2, 0>>
    /\ out = <<<<5, 0>>>>

\* C2: a well-formed greeting with no method in common with the supported set
\* is answered with exactly [05, FF]; the handshake fails with "no acceptable
\* methods" and the connection is closed before any request is read
C2_NoCommonMethodIsRefused ==
    (/\ Negotiated
     /\ writable
     /\ \A i \in 1..Len(Unwrap(greeting).methods) :
          ~Contains(supported, Unwrap(greeting).methods[i]))
    => /\ out = <<<<5, 255>>>>
       /\ err = IoErr("InvalidData", "No acceptable authentication methods")
       /\ result = "handshake_error"
       /\ pc = "closed"
       /\ method = None
       /\ requestIn = NoInput
       /\ request = None

\* C2 witness: the client offers only GSSAPI to a server that supports only
\* no-auth
C2_Witness ==
    /\ pc = "closed"
    /\ greetingIn.bytes = <<5, 1, 1>>
    /\ supported = <<0>>
    /\ out = <<<<5, 255>>>>

\* C3: a greeting whose first octet is not 0x05 fails with an invalid-version
\* error, nothing is ever written to the client, and the connection result is
\* a handshake error
C3_InvalidVersionNoReply ==
    (/\ Len(greetingIn.bytes) >= 1
     /\ greetingIn.bytes[1] # 5)
    => /\ out = <<>>
       /\ err = IoErr("InvalidData", "Invalid SOCKS version")
       /\ result = "handshake_error"
       /\ pc = "closed"

\* C3 witness: the client sends 04 01 00
C3_Witness ==
    /\ greetingIn.bytes = <<4, 1, 0>>
    /\ pc = "closed"
    /\ out = <<>>

\* C4: a greeting with nmethods = 0 fails with a "no methods" error; no method
\* is selected and no request is read
C4_NoMethodsIsInvalid ==
    (/\ Len(greetingIn.bytes) >= 2
     /\ greetingIn.bytes[1] = 5
     /\ greetingIn.bytes[2] = 0)
    => /\ err = IoErr("InvalidData", "No authentication methods provided")
       /\ result = "handshake_error"
       /\ pc = "closed"
       /\ greeting = None
       /\ method = None
       /\ requestIn = NoInput

\* C4 witness: the client sends 05 00
C4_Witness ==
    /\ greetingIn.bytes = <<5, 0>>
    /\ pc = "closed"
    /\ result = "handshake_error"

-----------------------------------------------------------------------------
(* Properties of the request phase.                                        *)

\* the reply that refuses with reply code c: IPv4 zero address, port 0
Refusal(c) ==
    <<5, c, 0, 1, 0, 0, 0, 0, 0, 0>>

\* the client sent all six fields of a request
RequestIsComplete ==
    requestIn.bytes \in FullRequests

\* the address field of the request read is one the address parser accepts:
\* an IPv4 or IPv6 address, or a non-empty UTF-8 domain name that resolved to
\* at least one address
AddressFieldParses ==
    LET b == requestIn.bytes
    IN  \/ b[4] \in {IPV4, IPV6}
        \/ /\ b[4] = DOMAIN_NAME
           /\ b[5] # 0
           /\ from_utf8_ok(SubSeq(b, 6, 5 + b[5]))
           /\ dnsAnswer # None
           /\ Unwrap(dnsAnswer) # None
           /\ Len(Unwrap(Unwrap(dnsAnswer))) > 0

\* C5 as stated: every complete request whose version octet is not 0x05 or
\* whose reserved octet is not 0x00 is answered with a reply that begins with
\* 0x05 and carries reply code 0x01, whatever its other fields
C5_Original ==
    (/\ RequestIsComplete
     /\ writable
     /\ (requestIn.bytes[1] # 5 \/ requestIn.bytes[3] # 0))
    => /\ Len(out) = 2
       /\ out[2][1] = 5
       /\ out[2][2] = 1

\* C5 amended: every complete request whose version octet is not 0x05 or whose
\* reserved octet is not 0x00, and whose address field parses, is answered
\* with a reply that begins with 0x05 and carries reply code 0x01, and is
\* rejected
C5_InvalidVersionOrReservedAfterAddress ==
    (/\ RequestIsComplete
     /\ writable
     /\ (requestIn.bytes[1] # 5 \/ requestIn.bytes[3] # 0)
     /\ AddressFieldParses)
    => /\ Len(out) = 2
       /\ out[2][1] = 5
       /\ out[2][2] = 1
       /\ request = None
       /\ result = "request_error"

\* C5 witness: a request of version 4 with an IPv4 address is answered with
\* general failure
C5_Witness ==
    /\ requestIn.bytes = <<4, 1, 0, 1, 127, 0, 0, 1, 31, 144>>
    /\ out = <<<<5, 0>>, Refusal(1)>>
    /\ pc = "closed"

\* C6 as stated: every complete request whose command octet is not 0x01, 0x02
\* or 0x03 is answered with reply code 0x07 and the zero address, no command
\* handler runs, no outbound connection is opened and the connection ends
\* with an error
C6_Original ==
    (/\ RequestIsComplete
     /\ writable
     /\ requestIn.bytes[2] \notin {1, 2, 3}
     /\ pc = "closed"
     /\ result # "connection_timeout")
    => /\ out = <<<<5, 0>>, Refusal(7)>>
       /\ cmdResult = None
       /\ connects = 0
       /\ result \in {"request_error", "command_error"}

\* C6 amended: every complete request with version 0x05, reserved 0x00 and an
\* address field that parses, whose command octet is not 0x01, 0x02 or 0x03,
\* is answered with reply code 0x07 and the zero address; no command handler
\* runs, no outbound connection or listener is opened, and the connection
\* ends with the error "Unsupported SOCKS command"
C6_UnknownCommandOfValidRequest ==
    (/\ RequestIsComplete
     /\ writable
     /\ requestIn.bytes[2] \notin {1, 2, 3}
     /\ requestIn.bytes[1] = 5
     /\ requestIn.bytes[3] = 0
     /\ AddressFieldParses
     /\ pc = "closed"
     /\ result # "connection_timeout")
    => /\ out = <<<<5, 0>>, Refusal(7)>>
       /\ cmdResult = None
       /\ connects = 0
       /\ target = "none"
       /\ listener = "none"
       /\ relay = [c2t |-> "idle", t2c |-> "idle"]
       /\ result = "command_error"
       /\ err = IoErr("InvalidData", "Unsupported SOCKS command")

\* C6 witness: command 0x09 in an otherwise valid request is refused
C6_Witness ==
    /\ requestIn.bytes = <<5, 9, 0, 1, 127, 0, 0, 1, 31, 144>>
    /\ request # None
    /\ out = <<<<5, 0>>, Refusal(7)>>
    /\ result = "command_error"

\* C7: every request whose address-type octet is not 0x01, 0x03 or 0x04 is
\* answered with 05 08 00 01 00 00 00 00 00 00 and the connection is closed
\* without any command being dispatched
C7_UnknownAddressTypeIsRefused ==
    (/\ Len(requestIn.bytes) >= 4
     /\ requestIn.bytes[4] \notin {1, 3, 4}
     /\ writable)
    => /\ out = <<<<5, 0>>, <<5, 8, 0, 1, 0, 0, 0, 0, 0, 0>>>>
       /\ pc = "closed"
       /\ result = "request_error"
       /\ request = None
       /\ cmdResult = None
       /\ connects = 0
       /\ target = "none"
       /\ listener = "none"

\* C7 witness: the request 05 01 00 99 7F 00 00 01 1F 90 has been refused
C7_Witness ==
    /\ requestIn.bytes = <<5, 1, 0, 153, 127, 0, 0, 1, 31, 144>>
    /\ out = <<<<5, 0>>, Refusal(8)>>
    /\ pc = "closed"

\* C8 as stated: a BIND request is refused immediately: no listener and no
\* socket is opened, the handler returns a result with reply code 0x07 and
\* the zero address, the client receives the single reply
\* 05 07 00 01 00 00 00 00 00 00 and no relay starts
C8_BindIsRefused ==
    (/\ request # None
     /\ writable
     /\ parse_command(requestIn.bytes[2]) = Some(BIND))
    => /\ listener = "none"
       /\ target = "none"
       /\ relay = [c2t |-> "idle", t2c |-> "idle"]
       /\ Len(out) <= 2
       /\ Len(out) = 2 => out[2] = Refusal(7)
       /\ (pc = "closed" /\ result # "connection_timeout")
             => /\ Len(out) = 2
                /\ cmdResult = Returned("Ok", Some(CommandResult_error(COMMAND_NOT_SUPPORTED)))

\* C9 as stated: a UDP ASSOCIATE request makes the dispatcher return a result
\* with reply code 0x07 and the zero address, the client receives exactly one
\* reply 05 07 00 01 00 00 00 00 00 00 and no relay starts
C9_Original ==
    (/\ request # None
     /\ writable
     /\ parse_command(requestIn.bytes[2]) = Some(UDP_ASSOCIATE)
     /\ pc = "closed"
     /\ result # "connection_timeout")
    => /\ cmdResult = Returned("Ok", Some(CommandResult_error(COMMAND_NOT_SUPPORTED)))
       /\ out = <<<<5, 0>>, Refusal(7)>>
       /\ target = "none"
       /\ relay = [c2t |-> "idle", t2c |-> "idle"]

\* C9 amended: a UDP ASSOCIATE request makes the dispatcher return the error
\* "UDP ASSOCIATE request handling not implemented" (kind Unsupported), not a
\* result; before that the client receives exactly one reply
\* 05 07 00 01 00 00 00 00 00 00; no socket is opened and no relay starts
C9_UdpAssociateIsRefusedWithError ==
    (/\ request # None
     /\ writable
     /\ parse_command(requestIn.bytes[2]) = Some(UDP_ASSOCIATE)
     /\ pc = "closed"
     /\ result # "connection_timeout")
    => /\ cmdResult = Returned("Err", None)
       /\ err = IoErr("Unsupported", "UDP ASSOCIATE request handling not implemented")
       /\ out = <<<<5, 0>>, Refusal(7)>>
       /\ connects = 0
       /\ target = "none"
       /\ listener = "none"
       /\ relay = [c2t |-> "idle", t2c |-> "idle"]

\* C9 witness: the request 05 03 00 01 7F 00 00 01 1F 90 has been refused
C9_Witness ==
    /\ requestIn.bytes = <<5, 3, 0, 1, 127, 0, 0, 1, 31, 144>>
    /\ cmdResult = Returned("Err", None)
    /\ out = <<<<5, 0>>, Refusal(7)>>

\* the reply code the table of causes gives for a failed connect
C10_CodeOfCause(kind) ==
    CASE kind = "ConnectionRefused" -> 5
      [] kind = "TimedOut" -> 4
      [] kind = "AddrNotAvailable" -> 4
      [] kind = "NetworkUnreachable" -> 3
      [] kind = "PermissionDenied" -> 2
      [] OTHER -> 1

\* C10: when the outbound connect of a CONNECT request fails, the one reply
\* sent carries the code of the cause (refused 0x05, timed out 0x04, address
\* not available 0x04, network unreachable 0x03, permission denied 0x02,
\* anything else 0x01) with the IPv4 zero address and port 0; there is no
\* target socket and no relay starts
C10_ConnectFailureCodes ==
    (/\ err.msg = "connect"
     /\ writable)
    => /\ out = <<<<5, 0>>, <<5, C10_CodeOfCause(err.kind), 0, 1, 0, 0, 0, 0, 0, 0>>>>
       /\ connects = 1
       /\ target = "none"
       /\ relay = [c2t |-> "idle", t2c |-> "idle"]
       /\ pc = "closed"

\* C10 witness: a refused connect has been answered with
\* 05 05 00 01 00 00 00 00 00 00
C10_Witness ==
    /\ requestIn.bytes = <<5, 1, 0, 1, 127, 0, 0, 1, 31, 144>>
    /\ err = IoErr("ConnectionRefused", "connect")
    /\ out = <<<<5, 0>>, <<5, 5, 0, 1, 0, 0, 0, 0, 0, 0>>>>

-----------------------------------------------------------------------------
(* Properties of dispatch, replies and the relay.                          *)

\* the reply frames written so far: everything after the method selection
ReplyFrames ==
    {out[i] : i \in 2..Len(out)}

\* C11 as stated: a success reply is never sent without a connected target,
\* the relay is entered only after a reply with code 0x00 and with that
\* target, and a returned result has code 0x00 exactly if it carries the
\* target socket
C11_SuccessOnlyWithTarget ==
    /\ \A f \in ReplyFrames : f[2] = SUCCESS => target # "none"
    /\ pc = "relay" => /\ Len(out) = 2
                       /\ out[2][2] = SUCCESS
                       /\ target = "open"
    /\ (cmdResult # None /\ Unwrap(cmdResult).kind = "Ok")
          => LET r == Unwrap(Unwrap(cmdResult).value)
             IN  (r.reply_code = SUCCESS) <=> r.stream

\* C12 as stated: a connection whose request reaches the dispatcher is sent
\* exactly one reply frame in total, never two or more
C12_ExactlyOneReply ==
    (/\ request # None
     /\ parse_command(Unwrap(request).command) # None
     /\ writable)
    => /\ Len(out) <= 2
       /\ (pc = "closed" /\ result # "connection_timeout") => Len(out) = 2

\* C13: every reply frame is 10 octets long with address type 0x01 or 22
\* octets long with address type 0x04; none is shorter than 10 octets and
\* address type 0x03 never appears
C13_ReplyFrameLengths ==
    \A f \in ReplyFrames :
       /\ Len(f) >= 10
       /\ \/ Len(f) = 10 /\ f[4] = IPV4
          \/ Len(f) = 22 /\ f[4] = IPV6
       /\ f[1] = SOCKS5_VERSION
       /\ f[3] = RESERVED

\* C13 witness: a CONNECT over IPv6 has been answered with a 22-octet frame
C13_Witness ==
    /\ Len(out) = 2
    /\ Len(out[2]) = 22
    /\ out[2][4] = IPV6

\* C14: every reply frame with a non-zero reply code carries address type
\* 0x01, address 0.0.0.0 and port 0
C14_ErrorRepliesCarryZeroAddress ==
    \A f \in ReplyFrames :
       f[2] # SUCCESS => f = <<5, f[2], 0, 1, 0, 0, 0, 0, 0, 0>>

\* C14 witness: a name that does not resolve is answered with host unreachable
\* and the zero address
C14_Witness ==
    /\ dnsAnswer = Some(None)
    /\ out = <<<<5, 0>>, <<5, 4, 0, 1, 0, 0, 0, 0, 0, 0>>>>

\* C16 as stated: as soon as either copy direction has finished, the relay
\* has returned; it never waits for the other direction
C16_RelayEndsWithFirstDirection ==
    pc = "relay" => relay.c2t = "open" /\ relay.t2c = "open"

TimedOutConnectionIsClosed ==
    /\ pc \in {"request", "dispatch", "connecting", "binding", "accepting", "relay"}
          => ENABLED ConnectionTimeout
    /\ result = "connection_timeout"
          => /\ pc = "closed"
             /\ err = IoErr("TimedOut", "Connection timeout")
             /\ target # "open"
             /\ listener # "listening"

IsPrefix(a, b) ==
    /\ Len(a) <= Len(b)
    /\ a = SubSeq(b, 1, Len(a))

\* C15: the phases of a connection are sequential: no request is parsed
\* before the method selection has been written, no reply is written before
\* the request has been parsed and, for CONNECT, before the connect attempt
\* has finished, and no relay octet moves in either direction before the
\* success reply has been written
C15_PhasesAreSequential ==
    /\ requestIn # NoInput
          => /\ Len(out) >= 1
             /\ out[1] = <<SOCKS5_VERSION, Unwrap(method)>>
             /\ greeting # None
    /\ Len(out) >= 2 => requestIn # NoInput
    /\ (/\ Len(out) >= 2
        /\ request # None
        /\ parse_command(Unwrap(request).command) = Some(CONNECT))
          => /\ connects = 1
             /\ pc \in {"relay", "closed"}
    /\ (wire.atTarget # <<>> \/ wire.back # <<>> \/ wire.atClient # <<>>
        \/ relay # [c2t |-> "idle", t2c |-> "idle"])
          => /\ Len(out) = 2
             /\ out[2][2] = SUCCESS
             /\ Unwrap(request).command = CONNECT

\* C15 witness: after method selection, request and success reply the client
\* has received relayed octets
C15_Witness ==
    /\ pc = "relay"
    /\ Len(out) = 2
    /\ wire.atClient # <<>>

-----------------------------------------------------------------------------
(* Properties of the process: admission control and start-up.              *)

\* the number of drivers that were running when the accept loop counted, for
\* the connection it is deciding on
ActiveWhenCounted ==
    IF server.loop = "ProxyServer" THEN server.seen - 1 ELSE server.seen

\* the connection the accept loop accepted last
LastAccepted ==
    Len(server.conns)

\* C25: at every moment at most max_connections drivers run; the counter is
\* the number of running drivers (plus the connection being decided on, where
\* the loop increments first); a connection counted while max_connections
\* drivers were active is dropped, no driver ever runs for a dropped
\* connection and nothing is ever written to it, whatever the order of
\* accepts, writes and finishing drivers
C25_AdmissionControl ==
    /\ [](/\ Cardinality(Running) <= config.max_connections
          /\ server.active_connections =
               Cardinality(Running)
               + (IF server.loop = "ProxyServer" /\ server.pc = "decide" THEN 1 ELSE 0)
          /\ \A i \in 1..Len(server.conns) :
               server.conns[i].state = "dropped" => ~server.conns[i].wrote)
    /\ [][/\ (/\ server.pc = "decide"
              /\ server'.pc = "accept"
              /\ ActiveWhenCounted >= config.max_connections)
             => server'.conns[LastAccepted].state = "dropped"
          /\ \A i \in 1..Len(server.conns) :
               server.conns[i].state = "dropped" => server'.conns[i] = server.conns[i]]_vars

\* the limit is one: the first connection is served and has been written to,
\* the second was accepted meanwhile and dropped
C25_Witness ==
    /\ config.max_connections = 1
    /\ Len(server.conns) >= 2
    /\ server.conns[1].state = "running"
    /\ server.conns[1].wrote
    /\ server.conns[2].state = "dropped"

-----------------------------------------------------------------------------
(* Properties of error handling in the request phase.                      *)

\* the messages of the errors parse_request returns for a read that failed:
\* the four header octets, the port, and the address field ("IO error")
ReadFailureMessages ==
    {"Failed to read version", "Failed to read command", "Failed to read reserved byte",
     "Failed to read address type", "Failed to read port", "IO error"}

\* the request phase ended because a read of the request failed
RequestReadFailed ==
    /\ pc = "closed"
    /\ result = "request_error"
    /\ err.msg \in ReadFailureMessages

\* the request was parsed and its command octet is none of the three commands
UnknownCommandWasRejected ==
    /\ pc = "closed"
    /\ result = "command_error"
    /\ request # None
    /\ parse_command(Unwrap(request).command) = None

\* C22: when an error reply for a parse or validation error, or for an unknown
\* command, cannot be written because the client no longer accepts writes, the
\* error the driver gets is the original one ("Unsupported SOCKS command" for
\* an unknown command), never the write error
C22_WriteErrorIsSwallowed ==
    /\ (pc = "closed" /\ result = "request_error" /\ ~writable)
         => err # WriteErr
    /\ (UnknownCommandWasRejected /\ ~writable)
         => err = IoErr("InvalidData", "Unsupported SOCKS command")

\* C23: when a read of the request fails (a header octet, the address, or the
\* port is cut short) and the client still accepts writes, the server has
\* written the general-failure reply before it closed
C23_FramingErrorIsAnswered ==
    (RequestReadFailed /\ writable)
    => /\ Len(out) = 2
       /\ out[2] = Refusal(GENERAL_FAILURE)

\* C24: every read failure while the request is parsed, in whichever of the six
\* fields and whatever the kind of the I/O error, reaches the caller as an
\* UnexpectedEof error
C24_ReadFailuresAreUnexpectedEof ==
    RequestReadFailed => err.kind = "UnexpectedEof"

-----------------------------------------------------------------------------
(* Properties of method negotiation.                                       *)

\* the methods both the client's greeting and the server's configuration list
CommonMethods ==
    {m \in {Unwrap(greeting).methods[i] : i \in 1..Len(Unwrap(greeting).methods)} :
       Contains(supported, m)}

\* C28: the only selections the server ever writes are [05, 00] and [05, FF],
\* so no unimplemented method is ever announced as selected and the handshake
\* never fails with "method not implemented" after a selection was sent; when
\* the client and the server have methods in common but none of them is the
\* implemented one, the server writes exactly [05, FF] and closes
C28_UnimplementedMethodIsNeverSelected ==
    /\ Len(out) >= 1 => out[1] \in {<<5, 0>>, <<5, 255>>}
    /\ err # IoErr("Unsupported", "authentication method not implemented")
    /\ (/\ Negotiated
        /\ writable
        /\ CommonMethods # {}
        /\ NO_AUTHENTICATION_REQUIRED \notin CommonMethods)
       => /\ out = <<<<5, 255>>>>
          /\ pc = "closed"
          /\ result = "handshake_error"
          /\ err = IoErr("InvalidData", "No acceptable authentication methods")
          /\ method = None
          /\ request = None

\* client and server both list only username/password: refused with [05, FF]
C28_Witness ==
    /\ greetingIn.bytes = <<5, 1, 2>>
    /\ supported = <<2>>
    /\ out = <<<<5, 255>>>>
    /\ pc = "closed"

-----------------------------------------------------------------------------
(* Properties of the order of reads and checks in parse_request.           *)

\* the request phase has run on the input requestIn
RequestWasRead ==
    /\ pc \notin {"greeting", "negotiate", "request"}
    /\ requestIn # NoInput

\* the requests that break off after the first octet of the port
PortCutRequests ==
    {SubSeq(full, 1, Len(full) - 1) : full \in FullRequests}

\* the client sent a request up to the first octet of the port
PortIsCut ==
    requestIn.bytes \in PortCutRequests

\* what parse_request returns for the input read and the answer name
\* resolution gave
ParseOutcome ==
    parse_request(requestIn, IF dnsAnswer = None THEN None ELSE Unwrap(dnsAnswer), TRUE)

\* C29: parse_request reads all six fields before it checks version and
\* reserved: a wrong version with a port cut short fails with UnexpectedEof
\* "Failed to read port" and no reply; an address error of a complete request
\* is reported rather than its wrong version or reserved octet; a wrong
\* version together with a wrong reserved octet is reported as invalid
\* version; and whenever the error is the wrong version or reserved octet the
\* whole request had been sent and every octet of it was consumed
C29_VersionAndReservedAreCheckedLast ==
    RequestWasRead
    => /\ (PortIsCut /\ requestIn.bytes[1] # 5 /\ AddressFieldParses)
            => /\ err = IoErr("UnexpectedEof", "Failed to read port")
               /\ result = "request_error"
               /\ Len(out) = 1
       /\ (/\ RequestIsComplete
           /\ (requestIn.bytes[1] # 5 \/ requestIn.bytes[3] # 0)
           /\ ~AddressFieldParses)
            => /\ result = "request_error"
               /\ err.msg \notin {"", "Invalid SOCKS version", "Invalid reserved byte"}
       /\ (/\ RequestIsComplete
           /\ requestIn.bytes[1] # 5
           /\ requestIn.bytes[3] # 0
           /\ AddressFieldParses)
            => /\ result = "request_error"
               /\ err = IoErr("InvalidData", "Invalid SOCKS version")
       /\ (/\ result = "request_error"
           /\ err.msg \in {"Invalid SOCKS version", "Invalid reserved byte"})
            => /\ RequestIsComplete
               /\ ParseOutcome.err = err
               /\ ParseOutcome.consumed = Len(requestIn.bytes)

\* version 4 and the port cut after its first octet: UnexpectedEof, no reply
C29_Witness ==
    /\ requestIn.bytes = <<4, 1, 0, 1, 127, 0, 0, 1, 31>>
    /\ pc = "closed"
    /\ err = IoErr("UnexpectedEof", "Failed to read port")
    /\ out = <<<<5, 0>>>>

\* C30: parse_request does not look at the command octet: a complete request
\* with version 0x05, reserved 0x00 and an address that parses is accepted
\* whatever its command octet, the Request carries the octet as it was read,
\* and nothing has been written when parse_request returns; an unknown
\* command is refused only by the dispatch that follows
C30_CommandIsNotValidatedByParse ==
    (/\ RequestWasRead
     /\ RequestIsComplete
     /\ requestIn.bytes[1] = 5
     /\ requestIn.bytes[3] = 0
     /\ AddressFieldParses)
    => /\ request # None
       /\ Unwrap(request).command = requestIn.bytes[2]
       /\ result # "request_error"
       /\ pc = "dispatch" => out = <<<<5, 0>>>>

\* a request with command 0x09 has been parsed and waits for the dispatch
C30_Witness ==
    /\ pc = "dispatch"
    /\ requestIn.bytes = <<5, 9, 0, 1, 127, 0, 0, 1, 31, 144>>
    /\ Unwrap(request).command = 9
    /\ out = <<<<5, 0>>>>

-----------------------------------------------------------------------------
(* Properties of MethodHandler::negotiate.                                 *)

\* the elements of a list
Elements(list) ==
    {list[i] : i \in 1..Len(list)}

\* the first tag of the order [00, 02, 01, 03, 80] that is in both sets and
\* implemented (only 00 is), if there is one
FirstOfPriority(client_set, server_set) ==
    LET priority == <<0, 2, 1, 3, 128>>
        hits == {i \in 1..5 : priority[i] \in client_set \cap server_set \cap {0}}
    IN  IF hits = {} THEN None
        ELSE Some(priority[CHOOSE i \in hits : \A j \in hits : i <= j])

\* C27: negotiate returns the first tag of the priority order that is in the
\* server list, in the client list and implemented, and none otherwise; it
\* returns no-auth exactly when 0x00 occurs in both lists; the result is
\* determined by the two sets of tags, so neither the order of a list nor a
\* repeated tag changes it
C27_NegotiateFollowsPriority ==
    pc = "negotiated"
    => /\ method = FirstOfPriority(Elements(Unwrap(greeting).methods), Elements(supported))
       /\ method = Some(0)
            <=> (0 \in Elements(Unwrap(greeting).methods) /\ 0 \in Elements(supported))
       /\ method \in {None, Some(0)}

\* the client lists username/password before no-auth, the server lists
\* no-auth twice: no-auth is returned
C27_Witness ==
    /\ pc = "negotiated"
    /\ Unwrap(greeting).methods = <<2, 0>>
    /\ supported = <<0, 0>>
    /\ method = Some(0)

-----------------------------------------------------------------------------
(* Properties of the life of a connection.                                 *)

\* the classifications the driver returns
TerminalResults ==
    {"ok", "handshake_error", "handshake_timeout", "request_error", "command_error",
     "relay_error", "connection_timeout"}

-----------------------------------------------------------------------------
(* Properties of domain-name requests.                                     *)

\* the request read carries a domain-name address whose length octet arrived
DomainRequestWasRead ==
    /\ RequestWasRead
    /\ Len(requestIn.bytes) >= 5
    /\ requestIn.bytes[4] = DOMAIN_NAME

\* the name of the request arrived whole; it is not empty
DomainNameArrived ==
    /\ DomainRequestWasRead
    /\ requestIn.bytes[5] # 0
    /\ Len(requestIn.bytes) >= 5 + requestIn.bytes[5]

\* the request was refused with reply code c and the error text msg: the
\* 10-octet zero-address reply is the only reply, and nothing was dispatched
RefusedByParser(c, msg) ==
    /\ out = <<<<5, 0>>, Refusal(c)>>
    /\ Len(out[2]) = 10
    /\ pc = "closed"
    /\ result = "request_error"
    /\ err.msg = msg
    /\ request = None
    /\ cmdResult = None
    /\ connects = 0
    /\ target = "none"
    /\ listener = "none"

\* C31: in a domain-name request an empty name and a name that is not valid
\* UTF-8 are refused with 0x01, a failed name resolution and a resolution
\* without addresses with 0x04; each time the 10-octet zero-address reply is
\* written, parse_request returns the error and no command is dispatched (the
\* client still accepting what the server writes)
C31_AddressFailureCodes ==
    writable
    => /\ (DomainRequestWasRead /\ requestIn.bytes[5] = 0)
            => RefusedByParser(1, "Empty domain name")
       /\ (/\ DomainNameArrived
           /\ ~from_utf8_ok(SubSeq(requestIn.bytes, 6, 5 + requestIn.bytes[5])))
            => RefusedByParser(1, "Invalid domain name encoding")
       /\ (DomainNameArrived /\ dnsAnswer = Some(None))
            => RefusedByParser(4, "DNS resolution failed")
       /\ (DomainNameArrived /\ dnsAnswer = Some(Some(<<>>)))
            => RefusedByParser(4, "No addresses resolved for domain")

\* the name "a" did not resolve: host unreachable
C31_Witness ==
    /\ requestIn.bytes = <<5, 1, 0, 3, 1, 97, 31, 144>>
    /\ dnsAnswer = Some(None)
    /\ out = <<<<5, 0>>, Refusal(4)>>
    /\ pc = "closed"

\* C32: the destination address of a parsed domain-name request is the address
\* of the first entry of the list the resolver returned, in the resolver's
\* order; the request fails with "no addresses resolved" exactly when the
\* list is empty
C32_FirstResolvedAddress ==
    (DomainNameArrived /\ dnsAnswer # None /\ Unwrap(dnsAnswer) # None)
    => /\ request # None
            => /\ Len(Unwrap(Unwrap(dnsAnswer))) >= 1
               /\ Unwrap(request).dest_addr = Unwrap(Unwrap(dnsAnswer))[1]
       /\ err.msg = "No addresses resolved for domain"
            <=> Unwrap(Unwrap(dnsAnswer)) = <<>>

\* the resolver returned ::1 and then 10.0.0.7: the request goes to ::1
C32_Witness ==
    /\ request # None
    /\ requestIn.bytes[4] = DOMAIN_NAME
    /\ Len(Unwrap(Unwrap(dnsAnswer))) = 2
    /\ Unwrap(request).dest_addr = IpV6(LOCALHOST_V6)

-----------------------------------------------------------------------------
(* Properties of the greeting parser.                                      *)

\* the client's input ended before the greeting it began was whole
GreetingEndsEarly ==
    /\ greetingIn # NoInput
    /\ greetingIn.term = "UnexpectedEof"
    /\ \/ Len(greetingIn.bytes) < 2
       \/ Len(greetingIn.bytes) < 2 + greetingIn.bytes[2]

\* every ClientGreeting returned holds exactly the nmethods octets that follow
\* the count in the input
ReturnedGreetingIsWhole ==
    greeting # None
    => /\ Len(Unwrap(greeting).methods) = Unwrap(greeting).nmethods
       /\ Unwrap(greeting).nmethods = greetingIn.bytes[2]
       /\ Unwrap(greeting).methods = SubSeq(greetingIn.bytes, 3, 2 + greetingIn.bytes[2])

\* the parse failed with UnexpectedEof, nothing was written and the
\* connection ended with an error
FailedWithUnexpectedEof ==
    /\ err.kind = "UnexpectedEof"
    /\ greeting = None
    /\ out = <<>>
    /\ pc = "closed"
    /\ result = "handshake_error"

\* C33 as stated: every greeting returned has methods.length == nmethods, and
\* an input that ends before the version, the count or all the method octets
\* have arrived fails with UnexpectedEof, with nothing written
C33_Original ==
    /\ ReturnedGreetingIsWhole
    /\ GreetingEndsEarly => FailedWithUnexpectedEof

\* C33 amended: every greeting returned has methods.length == nmethods, and an
\* input that ends before the version, the count or all the method octets
\* have arrived, and whose version octet, if it arrived, is 0x05, fails with
\* UnexpectedEof, with nothing written and an error as the result
C33_TruncatedGreetingIsUnexpectedEof ==
    /\ ReturnedGreetingIsWhole
    /\ (/\ GreetingEndsEarly
        /\ Len(greetingIn.bytes) >= 1 => greetingIn.bytes[1] = 5)
       => FailedWithUnexpectedEof

\* the client announced two methods and the input ended after the first
C33_Witness ==
    /\ greetingIn = [bytes |-> <<5, 2, 0>>, term |-> "UnexpectedEof"]
    /\ err.kind = "UnexpectedEof"
    /\ pc = "closed"
    /\ out = <<>>

-----------------------------------------------------------------------------
(* Properties of handshake::perform_handshake.                             *)

\* C34: perform_handshake accepts every whole greeting whose version octet is
\* 0x05, with any count of methods, zero included, and any methods, and
\* answers it with the selection [05, 00]; whatever it writes is [05, 00],
\* whatever the client offered (the client accepting the write)
C34_PerformHandshakeAlwaysSelectsNoAuth ==
    pc = "returned"
    => /\ (/\ Len(greetingIn.bytes) >= 2
           /\ greetingIn.bytes[1] = 5
           /\ Len(greetingIn.bytes) = 2 + greetingIn.bytes[2]
           /\ writable)
            => /\ err = NoErr
               /\ out = <<<<5, 0>>>>
               /\ greeting # None
               /\ Unwrap(greeting).methods
                    = SubSeq(greetingIn.bytes, 3, Len(greetingIn.bytes))
       /\ out \in {<<>>, <<<<5, 0>>>>}
       /\ err = NoErr <=> out = <<<<5, 0>>>>

\* a greeting that offers only username/password is answered [05, 00]
C34_Witness ==
    /\ pc = "returned"
    /\ greetingIn.bytes = <<5, 1, 2>>
    /\ out = <<<<5, 0>>>>
    /\ err = NoErr

-----------------------------------------------------------------------------
(* Properties of errors in the relay.                                      *)

\* C35: once a direction of the relay has failed with an I/O error the relay
\* has ended and the driver has the error as a relay error; a connection that
\* ended with a relay error got the success reply and no frame after it
C35_RelayErrorEndsRelay ==
    /\ (relay.c2t = "error" \/ relay.t2c = "error")
         => /\ pc = "closed"
            /\ result = "relay_error"
    /\ result = "relay_error"
         => /\ Len(out) = 2
            /\ out[2][2] = SUCCESS

-----------------------------------------------------------------------------
(* Properties of outbound connections.                                     *)

\* C36: an outbound TCP connection is attempted only after the handshake has
\* selected method 0x00 and the request has parsed with command 0x01, and at
\* most once on a client connection; after a failed handshake, after a
\* request parse error and for every other command octet none is attempted
\* and no target socket exists
C36_OutboundOnlyForConnect ==
    /\ connects <= 1
    /\ (connects >= 1 \/ target # "none")
         => /\ connects = 1
            /\ method = Some(NO_AUTHENTICATION_REQUIRED)
            /\ out[1] = <<5, 0>>
            /\ request # None
            /\ Unwrap(request).command = CONNECT
            /\ requestIn.bytes[2] = 1
    /\ (\/ result \in {"handshake_error", "handshake_timeout", "request_error"}
        \/ method = None
        \/ request = None
        \/ Unwrap(request).command # CONNECT)
         => /\ connects = 0
            /\ target = "none"

\* the connect of a CONNECT request is under way
C36_Witness ==
    /\ pc = "connecting"
    /\ connects = 1
    /\ method = Some(NO_AUTHENTICATION_REQUIRED)
    /\ Unwrap(request).command = CONNECT

\* -------------------------------------------------------------------------
\* Properties of the connection counter.
\* -------------------------------------------------------------------------

\* the accepted connections whose task has ended or that were never given one
Ended ==
    {i \in 1..Len(server.conns) :
        server.conns[i].state \in {"dropped", "finished", "interrupted"}}

\* increments less decrements over the first n accepted connections
RECURSIVE CounterBalance(_)
CounterBalance(n) ==
    IF n = 0 THEN 0
    ELSE CounterBalance(n - 1)
         + server.conns[n].incremented - server.conns[n].decremented

\* C37: the counter is incremented exactly once for each admitted connection
\* and decremented exactly once when its handler ends, by returning (Ok or
\* Err) or by the shutdown broadcast; a rejected connection leaves it
\* unchanged on balance; it is never below 0, and it is 0 once every handler
\* has ended.
C37_CounterIsBalanced ==
    /\ server.active_connections >= 0
    /\ server.active_connections = CounterBalance(Len(server.conns))
    /\ \A i \in 1..Len(server.conns) :
         LET c == server.conns[i] IN
         /\ c.state = "running" => c.incremented = 1 /\ c.decremented = 0
         /\ c.state \in {"finished", "interrupted"} =>
              c.incremented = 1 /\ c.decremented = 1
         /\ c.state = "dropped" =>
              c.incremented = c.decremented /\ c.incremented <= 1
    /\ Ended = 1..Len(server.conns) => server.active_connections = 0

\* one connection refused after it was counted, one whose driver returned and
\* one interrupted by the broadcast, and the counter back at 0
C37_Witness ==
    /\ server.active_connections = 0
    /\ \E i, j, k \in 1..Len(server.conns) :
         /\ server.conns[i].state = "dropped" /\ server.conns[i].incremented = 1
         /\ server.conns[j].state = "finished"
         /\ server.conns[k].state = "interrupted"

\* -------------------------------------------------------------------------
\* Properties of ProxyServer::shutdown.
\* -------------------------------------------------------------------------

\* shutdown has sent its broadcast and has not returned
ShutdownIsWaiting ==
    server.state = "shutdown" /\ server.shutdown.pc = "wait"

\* C38: after a shutdown signal with handlers in flight, shutdown broadcasts
\* to every in-flight handler; a handler that has the broadcast can stop
\* whatever its connection is doing, and one that stopped has released its
\* slot; shutdown returns with the count at 0 or with shutdown_timeout
\* elapsed, and it always returns.
C38_ShutdownNeverWaitsForever ==
    /\ [](ShutdownIsWaiting => \A i \in Running : server.conns[i].notified)
    /\ []((\E i \in Running : server.conns[i].notified) => ENABLED HandlerInterrupted)
    /\ [](\A i \in 1..Len(server.conns) :
            server.conns[i].state = "interrupted" =>
                server.conns[i].notified /\ server.conns[i].decremented = 1)
    /\ [](server.state = "stopped" /\ server.shutdown.broadcasts > 0 =>
            server.shutdown.remaining = 0 \/ server.shutdown.elapsed)
    /\ (server.state = "shutdown") ~> (server.state = "stopped")

\* shutdown has returned on the timeout: one handler stopped on the broadcast,
\* another is still counted
C38_Witness ==
    /\ server.state = "stopped"
    /\ server.shutdown.elapsed
    /\ server.shutdown.remaining > 0
    /\ server.shutdown.broadcasts = 2
    /\ \E i \in 1..Len(server.conns) : server.conns[i].state = "interrupted"
    /\ \E i \in Running : server.conns[i].notified

\* -------------------------------------------------------------------------
\* Properties of bind::handle_command.
\* -------------------------------------------------------------------------

\* the first reply: success with the address and port of the listener
IsFirstBindReply(frame) ==
    \E port \in BoundPorts :
        frame = <<5, 0, 0, 1, 0, 0, 0, 0>> \o ToBeBytes(port)

\* the second reply the claim prescribes for what the accept produced
PrescribedSecondReply(outcome, dest_addr) ==
    CASE outcome.kind = "accepted" /\ outcome.peer.ip = dest_addr ->
            <<5, 0, 0, IF outcome.peer.ip.fam = 4 THEN 1 ELSE 4>>
                \o outcome.peer.ip.octets \o ToBeBytes(outcome.peer.port)
      [] outcome.kind = "accepted" /\ outcome.peer.ip # dest_addr -> Refusal(5)
      [] outcome.kind = "accept_error" -> Refusal(1)
      [] outcome.kind = "timeout" -> Refusal(6)

EncodedResult ==
    Unwrap(Unwrap(cmdResult).value)

\* C40: for every CommandResult, send_reply_optimized writes the octets
\* send_reply writes: 05, the code, 00, the address type, the address and the
\* port with its high octet first; 10 octets for IPv4 and 22 for IPv6, and
\* the position in the 22 octet buffer never passes its end.
C40_OptimizedReplyIsTheSame ==
    pc = "returned"
    => /\ Len(out) = 2
       /\ out[2] = out[1]
       /\ out[2] = <<5, EncodedResult.reply_code, 0,
                     IF EncodedResult.bind_addr.fam = 4 THEN 1 ELSE 4>>
                   \o EncodedResult.bind_addr.octets
                   \o <<EncodedResult.bind_port \div 256, EncodedResult.bind_port % 256>>
       /\ Len(out[2]) = IF EncodedResult.bind_addr.fam = 4 THEN 10 ELSE 22
       /\ send_reply_optimized(EncodedResult).pos = Len(out[2])
       /\ send_reply_optimized(EncodedResult).pos <= 22

\* both encoders have written the reply to a CONNECT bound to an IPv6 address
\* and port 8080: the buffer is full
C40_Witness ==
    /\ pc = "returned"
    /\ EncodedResult.bind_addr = IpV6(LOCALHOST_V6)
    /\ EncodedResult.bind_port = 8080
    /\ Len(out) = 2
    /\ Len(out[2]) = 22
    /\ out[2][21] = 31
    /\ out[2][22] = 144

====
